---- MODULE Spec2Model ----
(***************************************************************************)
(* A model of plugins/janus_lua.c: the bridge between the Janus core and a *)
(* Lua script.  Threads are the host's callback threads, the deferred      *)
(* helper threads, the scheduler thread and the thread that runs           *)
(* janus_lua_init / janus_lua_destroy.  A session object is named by the   *)
(* host handle it was created for (session->handle = h, and                *)
(* handle->plugin_handle = h once created).                                *)
(*                                                                         *)
(* Memory: mem[s] is "none" before g_malloc0, "live" after it and "freed"  *)
(* after g_free.  A thread that dereferences a freed session either faults *)
(* (action Segfault) or reads and writes the stale contents of the block.  *)
(***************************************************************************)
EXTENDS Integers, Sequences, FiniteSets, TLC

\* Bounds of the model
NumHandles == 3
NumHosts == 2
MaxWorkers == 1
MaxId == 3
MaxQueue == 1
MaxRecorders == 3
MaxFrames == 2
\* the references the host core holds on a handle it gives the plugin
HostRef == 1
MaxTime == 2
StatusUnit == 2
MaxStatus == 2
MaxPackets == 3

\* Program constants
NULL == 0
janus_lua_event_resume == 1
janus_lua_event_exit == 2

Handles == 1..NumHandles
\* The handles of the specifications that attach two peers
Peers == 1..(NumHandles - 1)
Ids == 0..MaxId
Hosts == 1..NumHosts
Workers == (NumHosts + 1)..(NumHosts + MaxWorkers)
SchedT == NumHosts + MaxWorkers + 1
MainT == NumHosts + MaxWorkers + 2
Threads == 1..MainT

VARIABLES
    initialized, stopping,  \* volatile gint initialized, stopping
    luaState,               \* lua_State *state: "none", "open", "closed"
    lua_file,               \* the script janus_lua_init was given
    tables,                 \* sessions/ids/events: "none", "live", "destroyed"
    crashed,                \* the process has faulted
    lua_mutex,              \* owner of lua_mutex, or NULL
    sessions_mutex,         \* owner of sessions_mutex, or NULL
    recipients_mutex,       \* per session: owner of session->recipients_mutex
    sessions,               \* the handle-keyed table: handle -> session or NULL
    plugin_handle,          \* handle->plugin_handle
    handle_ref,             \* handle->ref, the reference count of the handle
    ids,                    \* the id-keyed table: id -> session or NULL
    hstate,                 \* the host's view of each handle
    events,                 \* the GAsyncQueue of scheduler tokens
    mem, sid, destroyed, hangingup, started, ref, recipients,  \* janus_lua_session
    pc, cin, co, cos, sess, rcp, decs, freeing, asev,          \* per thread
    lastHost,               \* the last call made into the host core
    result,                 \* per thread: the janus_plugin_result its last
                            \* handle_message gave the host core
    hungup,                 \* per handle: a hangup_media of the core has
                            \* returned at one of its early returns
    rec_mutex,              \* per session: owner of session->rec_mutex
    send, accept,           \* per session: the media with send_* / accept_* set
    recorder,               \* per session: arc, vrc and drc, by medium
    recorders,              \* the janus_recorder objects
    rtpctx,                 \* per session: janus_rtp_switching_context rtpctx
    specs, pkt,             \* per thread: the media named in a call, the packet
    save_rc,                \* per thread: the recorder incoming_rtp or incoming_data
                            \* has read from the session for janus_recorder_save_frame
    stream,                 \* per session: the RTP stream its peer sends
    relayed,                \* per session: the last packets given to relay_rtp
    now,                    \* janus_get_monotonic_time(), in microseconds
    pli_freq, pli_latest,   \* per session: session->pli_freq, session->pli_latest
    pli_event,              \* per session: the latest clock reading at which a PLI went
                            \* out or media was set up
    pli_now                 \* per thread: the local now of incoming_rtp

flagVars == <<initialized, stopping, luaState, lua_file, tables, crashed>>
lockVars == <<lua_mutex, sessions_mutex, recipients_mutex>>
regVars == <<sessions, plugin_handle, handle_ref, ids, hstate>>
sessVars == <<mem, sid, destroyed, hangingup, started, ref, recipients>>
thrVars == <<pc, cin, co, cos, sess, rcp, decs, freeing, asev>>
obsVars == <<lastHost, result, hungup>>
mediaVars ==
    <<rec_mutex, send, accept, recorder, recorders, rtpctx, specs, pkt, save_rc, stream, relayed>>
pliVars == <<now, pli_freq, pli_latest, pli_event, pli_now>>
vars == <<flagVars, lockVars, regVars, sessVars, thrVars, obsVars, events, mediaVars, pliVars>>

Range(q) == {q[i] : i \in 1..Len(q)}
NoAsev == [type |-> "none", session |-> NULL]
NoHost == [fn |-> "none", jsep |-> FALSE, helper |-> FALSE, locked |-> FALSE]

\* lua_tostring of an argument that is neither a string nor a number: NULL
NoString == "nil"

\* static const char *lua_functions[]: the functions a script must define
lua_functions ==
    {"init", "destroy", "resumeScheduler", "createSession", "destroySession",
     "querySession", "handleMessage", "setupMedia", "hangupMedia"}

\* No script: nothing that luaL_dofile can load
NoScript == [item |-> "value", loads |-> FALSE, functions |-> {}]

\* json_loads returning NULL, and no janus_plugin_result
NoJson == "none"
NoResult == [type |-> "none", text |-> NoString, content |-> NoJson]

\* "audio", "video" and "data", as startRecording, stopRecording and
\* configureMedium name them
Media == {"audio", "video", "data"}

\* The janus_recorder objects, each "none" (not created), "open" or "closed",
\* with the number of frames saved to it and whether it was released
RecIds == 1..MaxRecorders
NoRecorder == [state |-> "none", frames |-> 0, freed |-> FALSE]
NoRecorders == [m \in Media |-> NULL]

\* janus_recorder_create: the new recorder, or NULL when the file cannot be
\* opened (ok = FALSE) or no recorder is left
janus_recorder_create(rs, ok) ==
    IF ok /\ \E i \in RecIds : rs[i].state = "none"
    THEN CHOOSE i \in RecIds : rs[i].state = "none" /\ \A j \in RecIds : rs[j].state = "none" => i <= j
    ELSE NULL

\* The recorder objects once janus_recorder_create has returned rc
Created(rs, rc) == IF rc = NULL THEN rs ELSE [rs EXCEPT ![rc] = [state |-> "open", frames |-> 0, freed |-> FALSE]]

\* janus_recorder_close(rc)
janus_recorder_close(rs, rc) == IF rc = NULL THEN rs ELSE [rs EXCEPT ![rc].state = "closed"]

\* janus_recorder_save_frame(rc, buf, len): a NULL or closed recorder saves
\* nothing
janus_recorder_save_frame(rs, rc) ==
    IF rc # NULL /\ rs[rc].state = "open" THEN [rs EXCEPT ![rc].frames = @ + 1] ELSE rs

\* janus_recorder_free(rc): a NULL recorder is left alone, any other is closed
\* and its memory released
janus_recorder_free(rs, rc) ==
    IF rc = NULL THEN rs ELSE [janus_recorder_close(rs, rc) EXCEPT ![rc].freed = TRUE]

\* janus_recorder_free on each of the three recorders arc, vrc and drc
FreeAll(rs, f) ==
    janus_recorder_free(janus_recorder_free(janus_recorder_free(rs, f["audio"]), f["video"]), f["data"])

\* uint16_t values, and uint32_t values as their two 16-bit halves
G_USEC_PER_SEC == 1000000
Half == 65536
Byte == 256
Word(hi, lo) == [hi |-> hi, lo |-> lo]
Zero32 == Word(0, 0)
Add32(a, b) ==
    Word((a.hi + b.hi + ((a.lo + b.lo) \div Half)) % Half, (a.lo + b.lo) % Half)
Sub32(a, b) ==
    Word((a.hi - b.hi - (IF a.lo < b.lo THEN 1 ELSE 0) + Half) % Half, (a.lo - b.lo + Half) % Half)
Add16(a, b) == (a + b) % Half
Sub16(a, b) == (a - b + Half) % Half

\* htons and ntohs, htonl and ntohl on a little-endian host: the bytes in
\* reverse order
htons(x) == (x % Byte) * Byte + (x \div Byte)
ntohs(x) == (x % Byte) * Byte + (x \div Byte)
htonl(x) == Word(htons(x.lo), htons(x.hi))
ntohl(x) == Word(ntohs(x.lo), ntohs(x.hi))

\* rtp_header as it lies in the buffer, in network byte order
Header(ssrc, timestamp, seq_number) ==
    [ssrc |-> htonl(ssrc), timestamp |-> htonl(timestamp), seq_number |-> htons(seq_number)]
\* No header: no stream has the SSRC 0
NoHeader == [ssrc |-> Zero32, timestamp |-> Zero32, seq_number |-> 0]
NoPacket == [is_video |-> FALSE, data |-> NoHeader, timestamp |-> Zero32, seq_number |-> 0]
NoRelayed == [audio |-> NoHeader, video |-> NoHeader]

\* One medium of a janus_rtp_switching_context: the source last seen, the
\* last timestamp and sequence number sent, and the bases they are counted from
NoMediumContext ==
    [last_ssrc |-> Zero32, last_ts |-> Zero32, base_ts |-> Zero32, base_ts_prev |-> Zero32,
     last_seq |-> 0, base_seq |-> 0, base_seq_prev |-> 0]

\* janus_rtp_switching_context_reset(&session->rtpctx)
janus_rtp_switching_context_reset == [audio |-> NoMediumContext, video |-> NoMediumContext]

\* janus_rtp_header_update(header, context, video, step): when the source
\* changes, the bases move to the packet at hand and to the last values sent;
\* the header gets the timestamp and sequence number counted from the bases
janus_rtp_header_update(header, context, video, step) ==
    LET m == IF video THEN "video" ELSE "audio"
        c == context[m]
        ssrc == ntohl(header.ssrc)
        timestamp == ntohl(header.timestamp)
        seq == ntohs(header.seq_number)
        b == IF ssrc # c.last_ssrc
             THEN [c EXCEPT !.last_ssrc = ssrc,
                            !.base_ts_prev = c.last_ts, !.base_ts = timestamp,
                            !.base_seq_prev = c.last_seq, !.base_seq = seq]
             ELSE c
        last_ts == Add32(Add32(Sub32(timestamp, b.base_ts), b.base_ts_prev), step)
        last_seq == Add16(Add16(Sub16(seq, b.base_seq), b.base_seq_prev), 1)
    IN [header |-> [header EXCEPT !.timestamp = htonl(last_ts), !.seq_number = htons(last_seq)],
        context |-> [context EXCEPT ![m] = [b EXCEPT !.last_ts = last_ts, !.last_seq = last_seq]]]

\* The SSRC of the stream a session's peer sends, one per medium
Ssrc(s, video) == Word(0, 2 * s + (IF video THEN 1 ELSE 0))

\* The last packet the peer of a session has sent: the n-th of its stream
FirstStream == [n |-> 0, timestamp |-> Zero32, seq_number |-> 0]

\* A thread is ready for its next program step when it has no reference
\* release or session_free still to run.
Ready(t) == ~crashed /\ decs[t] = <<>> /\ freeing[t] = NULL
At(t, p) == Ready(t) /\ pc[t] = p

\* Where a callback returns to: the core called it from a host thread, or
\* from inside gateway->close_pc on a helper thread.
Return(t) == IF t \in Workers THEN "helper_release" ELSE "idle"

\* if(g_atomic_int_get(&stopping) || !g_atomic_int_get(&initialized))
Rejected == stopping \/ ~initialized

\* The state with the handles `used` at the host's disposal: before
\* janus_lua_init (active = FALSE), or once it has returned 0 (the script is
\* loaded, the tables exist, the scheduler thread waits on the empty queue)
\* and create_session has returned for the handles `made`, with the id h
\* drawn for handle h and configureMedium called for the media `media` in
\* both directions.
StartWith(script, active, used, made, media) ==
    /\ initialized = active /\ stopping = FALSE
    /\ luaState = (IF active THEN "open" ELSE "none")
    /\ lua_file = script
    /\ tables = (IF active THEN "live" ELSE "none")
    /\ crashed = FALSE
    /\ lua_mutex = NULL /\ sessions_mutex = NULL
    /\ recipients_mutex = [s \in Handles |-> NULL]
    /\ sessions = [h \in Handles |-> IF h \in made THEN h ELSE NULL]
    /\ plugin_handle = [h \in Handles |-> IF h \in made THEN h ELSE NULL]
    /\ handle_ref = [h \in Handles |-> HostRef]
    /\ ids = [i \in Ids |-> IF i \in made THEN i ELSE NULL]
    /\ hstate = [h \in Handles |-> IF h \in made THEN "attached"
                                   ELSE IF h \in used THEN "new" ELSE "unused"]
    /\ events = <<>>
    /\ mem = [s \in Handles |-> IF s \in made THEN "live" ELSE "none"]
    /\ sid = [s \in Handles |-> IF s \in made THEN s ELSE 0]
    /\ destroyed = [s \in Handles |-> FALSE]
    /\ hangingup = [s \in Handles |-> FALSE]
    /\ started = [s \in Handles |-> FALSE]
    /\ ref = [s \in Handles |-> IF s \in made THEN 1 ELSE 0]
    /\ recipients = [s \in Handles |-> <<>>]
    /\ pc = [t \in Threads |->
              IF t = MainT THEN (IF active THEN "running" ELSE "init")
              ELSE IF t = SchedT THEN (IF active THEN "sched_pop" ELSE "off")
              ELSE "idle"]
    /\ cin = [t \in Threads |-> "none"]
    /\ co = [t \in Threads |-> "none"]
    /\ cos = [t \in Threads |-> NULL]
    /\ sess = [t \in Threads |-> NULL]
    /\ rcp = [t \in Threads |-> NULL]
    /\ decs = [t \in Threads |-> <<>>]
    /\ freeing = [t \in Threads |-> NULL]
    /\ asev = [t \in Threads |-> NoAsev]
    /\ lastHost = NoHost
    /\ result = [t \in Threads |-> NoResult]
    /\ hungup = [h \in Handles |-> FALSE]
    /\ rec_mutex = [s \in Handles |-> NULL]
    /\ send = [s \in Handles |-> IF s \in made THEN media ELSE {}]
    /\ accept = [s \in Handles |-> IF s \in made THEN media ELSE {}]
    /\ recorder = [s \in Handles |-> NoRecorders]
    /\ recorders = [r \in RecIds |-> NoRecorder]
    /\ rtpctx = [s \in Handles |-> janus_rtp_switching_context_reset]
    /\ specs = [t \in Threads |-> <<>>]
    /\ pkt = [t \in Threads |-> NoPacket]
    /\ save_rc = [t \in Threads |-> NULL]
    /\ stream = [s \in Handles |-> FirstStream]
    /\ relayed = [s \in Handles |-> NoRelayed]
    /\ now = 0
    /\ pli_freq = [s \in Handles |-> 0]
    /\ pli_latest = [s \in Handles |-> 0]
    /\ pli_event = [s \in Handles |-> 0]
    /\ pli_now = [t \in Threads |-> 0]

\* The same with the script that defines the required functions and none of
\* the optional ones once janus_lua_init has run, and no script before
Start(active, used, made, media) ==
    StartWith(IF active THEN [item |-> "value", loads |-> TRUE, functions |-> lua_functions]
              ELSE NoScript,
              active, used, made, media)

----------------------------------------------------------------------------
\* Reference counting (janus_refcount) and janus_lua_session_free

\* janus_refcount_decrease: the atomic decrement; the thread that brings the
\* count to zero runs the free function next.
janus_refcount_decrease(t) ==
    /\ ~crashed /\ freeing[t] = NULL /\ decs[t] # <<>>
    /\ LET s == Head(decs[t]) IN
        /\ ref' = [ref EXCEPT ![s] = @ - 1]
        /\ freeing' = [freeing EXCEPT ![t] = IF ref[s] - 1 = 0 THEN s ELSE NULL]
    /\ decs' = [decs EXCEPT ![t] = Tail(@)]
    /\ UNCHANGED <<flagVars, lockVars, regVars, events, obsVars>>
    /\ UNCHANGED <<mem, sid, destroyed, hangingup, started, recipients>>
    /\ UNCHANGED <<pc, cin, co, cos, sess, rcp, asev>>
    /\ UNCHANGED mediaVars
    /\ UNCHANGED pliVars

\* The id table after g_hash_table_remove(ids, session->id)
IdsWithout(s) == [i \in Ids |-> IF i = sid[s] THEN NULL ELSE ids[i]]

\* janus_lua_session_free, run by the thread whose decrement reached zero;
\* it takes no lock of its own.
janus_lua_session_free(t) ==
    /\ ~crashed /\ freeing[t] # NULL
    /\ LET s == freeing[t] IN
        /\ ids' = IF tables = "live" THEN IdsWithout(s) ELSE ids
        /\ recorders' = FreeAll(recorders, recorder[s])
        /\ mem' = [mem EXCEPT ![s] = "freed"]
        /\ handle_ref' = [handle_ref EXCEPT ![s] = @ - 1]
    /\ freeing' = [freeing EXCEPT ![t] = NULL]
    /\ UNCHANGED <<flagVars, lockVars, events, obsVars>>
    /\ UNCHANGED <<sessions, plugin_handle, hstate>>
    /\ UNCHANGED <<sid, destroyed, hangingup, started, ref, recipients>>
    /\ UNCHANGED <<pc, cin, co, cos, sess, rcp, decs, asev>>
    /\ UNCHANGED <<rec_mutex, send, accept, recorder, rtpctx, specs, pkt, save_rc, stream, relayed>>
    /\ UNCHANGED pliVars

----------------------------------------------------------------------------
\* The engine gateway: every call-in after init locks lua_mutex, runs the
\* script function on a new Lua thread and unlocks.

\* janus_mutex_lock(&lua_mutex); lua_newthread(state); ...; lua_call(...)
\* The id argument is read from session->id here, except by destroy_session,
\* which read it before, and by the call-ins that take no id.  After that
\* only create_session and destroy_session are tracked to their return.
\* A gateway that does not wait for lua_mutex
LuaLockUnguarded(t) == TRUE

\* janus_mutex_lock(&lua_mutex) returns once no thread owns the mutex
LuaLockGuard(t) == lua_mutex = NULL

LuaLock(t) ==
    /\ At(t, "lua_wait") /\ LuaLockGuard(t)
    /\ luaState = "open"
    /\ lua_mutex' = t
    /\ pc' = [pc EXCEPT ![t] = "script"]
    /\ sess' = [sess EXCEPT ![t] = IF cin[t] \in {"createSession", "destroySession"} THEN @ ELSE NULL]
    /\ UNCHANGED <<flagVars, regVars, sessVars, events, obsVars>>
    /\ UNCHANGED <<sessions_mutex, recipients_mutex>>
    /\ UNCHANGED <<cin, co, cos, rcp, decs, freeing, asev>>
    /\ UNCHANGED mediaVars
    /\ UNCHANGED pliVars

\* Where each call-in continues after lua_call has returned
AfterScript(t) ==
    CASE cin[t] = "init" -> "init_tables"
      [] cin[t] = "destroy" -> "destroy_tables"
      [] cin[t] = "resumeScheduler" -> "sched_loop"
      [] OTHER -> Return(t)

\* lua_call returns; janus_mutex_unlock(&lua_mutex).  The init call-in runs
\* before any other thread exists and holds no lock.
ScriptReturn(t) ==
    /\ At(t, "script")
    /\ lua_mutex' = IF cin[t] = "init" THEN lua_mutex ELSE NULL
    /\ pc' = [pc EXCEPT ![t] = AfterScript(t)]
    /\ cin' = [cin EXCEPT ![t] = "none"]
    /\ sess' = [sess EXCEPT ![t] = NULL]
    /\ hstate' = IF cin[t] = "createSession" THEN [hstate EXCEPT ![sess[t]] = "attached"]
                 ELSE IF cin[t] = "destroySession" THEN [hstate EXCEPT ![sess[t]] = "detached"]
                 ELSE hstate
    /\ UNCHANGED <<flagVars, sessVars, events, obsVars>>
    /\ UNCHANGED <<sessions, plugin_handle, handle_ref, ids>>
    /\ UNCHANGED <<sessions_mutex, recipients_mutex>>
    /\ UNCHANGED <<co, cos, rcp, decs, freeing, asev>>
    /\ UNCHANGED mediaVars
    /\ UNCHANGED pliVars

----------------------------------------------------------------------------
\* janus_lua_init and janus_lua_destroy, on the main thread

\* The scripts janus_lua_init can be given: one that luaL_dofile cannot
\* load, and the loadable ones that lack at most one required function
\* The scripts janus_lua_init is tried with: one that does not load, and
\* loading ones that lack at most one required function; each defines the
\* optional incomingRtcp
Scripts ==
    {NoScript} \cup {[item |-> "value", loads |-> TRUE,
                       functions |-> (lua_functions \ fs) \cup {"incomingRtcp"}] :
                        fs \in {{}} \cup {{f} : f \in lua_functions}}

UsableLoaded(script) == script.loads

\* luaL_dofile succeeds and lua_isfunction holds of every required function
Usable(script) == script.loads /\ lua_functions \subseteq script.functions

\* static gboolean has_incoming_rtp, has_incoming_rtcp, has_incoming_data:
\* set by janus_lua_init, once the required functions were found, when
\* lua_isfunction holds of the global of that name
has_incoming_rtp == Usable(lua_file) /\ "incomingRtp" \in lua_file.functions
has_incoming_rtcp == Usable(lua_file) /\ "incomingRtcp" \in lua_file.functions
has_incoming_data_always == TRUE
has_incoming_data == Usable(lua_file) /\ "incomingData" \in lua_file.functions

\* janus_lua_init from the "script" item of the configuration on.  The
\* test if(script == NULL && script->value == NULL) reads script->value
\* exactly when there is no item, and is false for every item: without the
\* item, the read goes through the null pointer and the process faults.
\* With an item that has no value, lua_file is g_strdup(NULL) and
\* luaL_dofile(state, NULL) loads the chunk on the standard input; loads
\* and functions then describe that chunk.  What is loaded is checked, and
\* init() is called on it; a chunk that fails to load or lacks a required
\* function makes init return -1.
janus_lua_init_script(t, script) ==
    /\ At(t, "init") /\ t = MainT
    /\ lua_file' = script
    /\ IF script.item = "absent"
       THEN /\ crashed' = TRUE
            /\ UNCHANGED <<luaState, pc, cin>>
       ELSE /\ crashed' = crashed
            /\ IF Usable(script)
               THEN /\ luaState' = "open"
                    /\ pc' = [pc EXCEPT ![t] = "script"]
                    /\ cin' = [cin EXCEPT ![t] = "init"]
               ELSE /\ luaState' = "closed"
                    /\ pc' = [pc EXCEPT ![t] = "init_failed"]
                    /\ cin' = cin
    /\ UNCHANGED <<initialized, stopping, tables>>
    /\ UNCHANGED <<lockVars, regVars, sessVars, events, obsVars>>
    /\ UNCHANGED <<co, cos, sess, rcp, decs, freeing, asev>>
    /\ UNCHANGED mediaVars
    /\ UNCHANGED pliVars

\* janus_lua_init with a configuration that names a script
janus_lua_init_load(t) == \E script \in Scripts : janus_lua_init_script(t, script)

\* The tables and the queue are created and the scheduler thread is
\* launched; g_thread_try_new may fail.
janus_lua_init_tables(t) ==
    /\ At(t, "init_tables")
    /\ tables' = "live"
    /\ \/ /\ pc' = [pc EXCEPT ![t] = "init_finish", ![SchedT] = "sched_loop"]
          /\ luaState' = luaState
       \/ /\ pc' = [pc EXCEPT ![t] = "init_failed"]
          /\ luaState' = "closed"
    /\ UNCHANGED <<initialized, stopping, lua_file, crashed>>
    /\ UNCHANGED <<lockVars, regVars, sessVars, events, obsVars>>
    /\ UNCHANGED <<cin, co, cos, sess, rcp, decs, freeing, asev>>
    /\ UNCHANGED mediaVars
    /\ UNCHANGED pliVars

\* gateway = callback; g_atomic_int_set(&initialized, 1)
janus_lua_init_finish(t) ==
    /\ At(t, "init_finish")
    /\ initialized' = TRUE
    /\ pc' = [pc EXCEPT ![t] = "running"]
    /\ UNCHANGED <<stopping, luaState, lua_file, tables, crashed>>
    /\ UNCHANGED <<lockVars, regVars, sessVars, events, obsVars>>
    /\ UNCHANGED <<cin, co, cos, sess, rcp, decs, freeing, asev>>
    /\ UNCHANGED mediaVars
    /\ UNCHANGED pliVars

\* janus_lua_destroy: stopping is set and the exit token pushed
janus_lua_destroy_start(t) ==
    /\ At(t, "running")
    /\ stopping' = TRUE
    /\ events' = Append(events, janus_lua_event_exit)
    /\ pc' = [pc EXCEPT ![t] = "destroy_join"]
    /\ UNCHANGED <<initialized, luaState, lua_file, tables, crashed>>
    /\ UNCHANGED <<lockVars, regVars, sessVars, obsVars>>
    /\ UNCHANGED <<cin, co, cos, sess, rcp, decs, freeing, asev>>
    /\ UNCHANGED mediaVars
    /\ UNCHANGED pliVars

\* g_thread_join(scheduler_thread), then on to the destroy() call-in
janus_lua_destroy_join(t) ==
    /\ At(t, "destroy_join")
    /\ pc[SchedT] = "done"
    /\ pc' = [pc EXCEPT ![t] = "lua_wait"]
    /\ cin' = [cin EXCEPT ![t] = "destroy"]
    /\ UNCHANGED <<flagVars, lockVars, regVars, sessVars, events, obsVars>>
    /\ UNCHANGED <<co, cos, sess, rcp, decs, freeing, asev>>
    /\ UNCHANGED mediaVars
    /\ UNCHANGED pliVars

\* The sessions still in the handle table, in the order the table is torn down
RECURSIVE TableOrder(_)
TableOrder(S) ==
    IF S = {} THEN <<>>
    ELSE LET h == CHOOSE x \in S : \A y \in S : x <= y
         IN <<h>> \o TableOrder(S \ {h})

\* Under sessions_mutex: g_hash_table_destroy(sessions) calls
\* janus_lua_session_destroy on every value; ids and events are dropped.
janus_lua_destroy_tables(t) ==
    /\ At(t, "destroy_tables") /\ sessions_mutex = NULL
    /\ sessions_mutex' = t
    /\ LET S == {h \in Handles : sessions[h] # NULL /\ ~destroyed[sessions[h]]} IN
        /\ destroyed' = [s \in Handles |-> destroyed[s] \/ s \in S]
        /\ decs' = [decs EXCEPT ![t] = TableOrder(S)]
    /\ sessions' = [h \in Handles |-> NULL]
    /\ ids' = [i \in Ids |-> NULL]
    /\ tables' = "destroyed"
    /\ events' = <<>>
    /\ pc' = [pc EXCEPT ![t] = "destroy_unlock"]
    /\ UNCHANGED <<initialized, stopping, luaState, lua_file, crashed>>
    /\ UNCHANGED <<lua_mutex, recipients_mutex, plugin_handle, handle_ref, hstate, obsVars>>
    /\ UNCHANGED <<mem, sid, hangingup, started, ref, recipients>>
    /\ UNCHANGED <<cin, co, cos, sess, rcp, freeing, asev>>
    /\ UNCHANGED mediaVars
    /\ UNCHANGED pliVars

\* janus_mutex_unlock(&sessions_mutex)
janus_lua_destroy_unlock(t) ==
    /\ At(t, "destroy_unlock")
    /\ sessions_mutex' = NULL
    /\ pc' = [pc EXCEPT ![t] = "destroy_close"]
    /\ UNCHANGED <<flagVars, lua_mutex, recipients_mutex, regVars, sessVars, events, obsVars>>
    /\ UNCHANGED <<cin, co, cos, sess, rcp, decs, freeing, asev>>
    /\ UNCHANGED mediaVars
    /\ UNCHANGED pliVars

\* lua_close(state) under lua_mutex; the two flags are cleared.
janus_lua_destroy_close(t) ==
    /\ At(t, "destroy_close") /\ lua_mutex = NULL
    /\ luaState' = "closed"
    /\ initialized' = FALSE
    /\ stopping' = FALSE
    /\ pc' = [pc EXCEPT ![t] = "stopped"]
    /\ UNCHANGED <<lua_file, tables, crashed, lockVars>>
    /\ UNCHANGED <<regVars, sessVars, events, obsVars>>
    /\ UNCHANGED <<cin, co, cos, sess, rcp, decs, freeing, asev>>
    /\ UNCHANGED mediaVars
    /\ UNCHANGED pliVars

----------------------------------------------------------------------------
\* janus_lua_scheduler

\* while(g_atomic_int_get(&initialized) && !g_atomic_int_get(&stopping))
janus_lua_scheduler_loop(t) ==
    /\ At(t, "sched_loop")
    /\ pc' = [pc EXCEPT ![t] = IF initialized /\ ~stopping THEN "sched_pop" ELSE "done"]
    /\ UNCHANGED <<flagVars, lockVars, regVars, sessVars, events, obsVars>>
    /\ UNCHANGED <<cin, co, cos, sess, rcp, decs, freeing, asev>>
    /\ UNCHANGED mediaVars
    /\ UNCHANGED pliVars

\* A scheduler that takes the exit token for a resume token
BreaksNever(event) == FALSE

\* if(event == janus_lua_event_exit) break;
Breaks(event) == event = janus_lua_event_exit

\* event = g_async_queue_pop(events): blocks while the queue is empty
janus_lua_scheduler_pop(t) ==
    /\ At(t, "sched_pop")
    /\ events # <<>>
    /\ events' = Tail(events)
    /\ IF Breaks(Head(events))
       THEN /\ pc' = [pc EXCEPT ![t] = "done"]
            /\ cin' = cin
       ELSE /\ pc' = [pc EXCEPT ![t] = "lua_wait"]
            /\ cin' = [cin EXCEPT ![t] = "resumeScheduler"]
    /\ UNCHANGED <<flagVars, lockVars, regVars, sessVars, obsVars>>
    /\ UNCHANGED <<co, cos, sess, rcp, decs, freeing, asev>>
    /\ UNCHANGED mediaVars
    /\ UNCHANGED pliVars

----------------------------------------------------------------------------
\* Host callbacks.  The core calls create_session once per handle, the other
\* callbacks only after it has returned, and destroy_session once.

Callable(h) == hstate[h] \in {"attached", "detaching", "detached"}

\* An id loop without the lookup in ids
UncheckedIds == {i \in 0..MaxId : i # 0}

\* The ids the loop of janus_lua_create_session can end with:
\* while(id == 0) { id = janus_random_uint32(); if(lookup(ids, id)) id = 0; }
NewIds == {i \in 0..MaxId : i # 0 /\ ids[i] = NULL}

janus_lua_create_session_check(t, h) ==
    /\ At(t, "idle") /\ t \in Hosts /\ hstate[h] = "new"
    /\ IF Rejected
       THEN /\ hstate' = [hstate EXCEPT ![h] = "failed"]
            /\ UNCHANGED <<pc, sess>>
       ELSE /\ hstate' = [hstate EXCEPT ![h] = "creating"]
            /\ pc' = [pc EXCEPT ![t] = "cs_reg"]
            /\ sess' = [sess EXCEPT ![t] = h]
    /\ UNCHANGED <<flagVars, lockVars, sessVars, events, obsVars>>
    /\ UNCHANGED <<sessions, plugin_handle, handle_ref, ids>>
    /\ UNCHANGED <<cin, co, cos, rcp, decs, freeing, asev>>
    /\ UNCHANGED mediaVars
    /\ UNCHANGED pliVars

\* Under sessions_mutex: the id is drawn, the session allocated with a
\* reference count of 1 and entered in both tables.
janus_lua_create_session(t) ==
    /\ At(t, "cs_reg") /\ sessions_mutex = NULL
    /\ LET h == sess[t] IN \E id \in NewIds :
        /\ mem' = [mem EXCEPT ![h] = "live"]
        /\ sid' = [sid EXCEPT ![h] = id]
        /\ ref' = [ref EXCEPT ![h] = 1]
        /\ plugin_handle' = [plugin_handle EXCEPT ![h] = h]
        /\ handle_ref' = handle_ref
        /\ sessions' = IF tables = "live" THEN [sessions EXCEPT ![h] = h] ELSE sessions
        /\ ids' = IF tables = "live" THEN [ids EXCEPT ![id] = h] ELSE ids
    /\ pc' = [pc EXCEPT ![t] = "lua_wait"]
    /\ cin' = [cin EXCEPT ![t] = "createSession"]
    /\ UNCHANGED <<flagVars, lockVars, hstate, events, obsVars>>
    /\ UNCHANGED <<destroyed, hangingup, started, recipients>>
    /\ UNCHANGED <<co, cos, sess, rcp, decs, freeing, asev>>
    /\ UNCHANGED mediaVars
    /\ UNCHANGED pliVars

\* janus_lua_destroy_session up to guint32 id = session->id
janus_lua_destroy_session_check(t, h) ==
    /\ At(t, "idle") /\ t \in Hosts /\ hstate[h] = "attached"
    /\ hstate' = [hstate EXCEPT ![h] = "detaching"]
    /\ IF Rejected
       THEN UNCHANGED <<pc, sess>>
       ELSE /\ pc' = [pc EXCEPT ![t] = "ds_reg"]
            /\ sess' = [sess EXCEPT ![t] = plugin_handle[h]]
    /\ UNCHANGED <<flagVars, lockVars, sessVars, events, obsVars>>
    /\ UNCHANGED <<sessions, plugin_handle, handle_ref, ids>>
    /\ UNCHANGED <<cin, co, cos, rcp, decs, freeing, asev>>
    /\ UNCHANGED mediaVars
    /\ UNCHANGED pliVars

\* janus_lua_session_destroy, the value-destroy notify of the handle table:
\* the sessions whose registry reference it releases
janus_lua_session_destroy(s) ==
    IF s # NULL /\ ~destroyed[s] THEN <<s>> ELSE <<>>

\* Under sessions_mutex: g_hash_table_remove(sessions, handle)
janus_lua_destroy_session(t) ==
    /\ At(t, "ds_reg") /\ sessions_mutex = NULL
    /\ sessions_mutex' = t
    /\ LET h == sess[t]
           s == IF tables = "live" THEN sessions[h] ELSE NULL
       IN /\ sessions' = [sessions EXCEPT ![h] = NULL]
          /\ decs' = [decs EXCEPT ![t] = janus_lua_session_destroy(s)]
          /\ destroyed' = IF s # NULL THEN [destroyed EXCEPT ![s] = TRUE] ELSE destroyed
    /\ pc' = [pc EXCEPT ![t] = "ds_unlock"]
    /\ UNCHANGED <<flagVars, lua_mutex, recipients_mutex, events, obsVars>>
    /\ UNCHANGED <<plugin_handle, handle_ref, ids, hstate>>
    /\ UNCHANGED <<mem, sid, hangingup, started, ref, recipients>>
    /\ UNCHANGED <<cin, co, cos, sess, rcp, freeing, asev>>
    /\ UNCHANGED mediaVars
    /\ UNCHANGED pliVars

\* janus_mutex_unlock(&sessions_mutex), then on to the destroySession call-in
janus_lua_destroy_session_unlock(t) ==
    /\ At(t, "ds_unlock")
    /\ sessions_mutex' = NULL
    /\ pc' = [pc EXCEPT ![t] = "lua_wait"]
    /\ cin' = [cin EXCEPT ![t] = "destroySession"]
    /\ UNCHANGED <<flagVars, lua_mutex, recipients_mutex, regVars, sessVars, events, obsVars>>
    /\ UNCHANGED <<co, cos, sess, rcp, decs, freeing, asev>>
    /\ UNCHANGED mediaVars
    /\ UNCHANGED pliVars

\* janus_lua_handle_message and janus_lua_query_session up to the call-in:
\* neither looks at session->destroyed.
janus_lua_handle_message(t, h, name) ==
    /\ At(t, "idle") /\ t \in Hosts /\ Callable(h)
    /\ ~Rejected /\ plugin_handle[h] # NULL
    /\ cin' = [cin EXCEPT ![t] = name]
    /\ pc' = [pc EXCEPT ![t] = "lua_wait"]
    /\ sess' = [sess EXCEPT ![t] = plugin_handle[h]]
    /\ UNCHANGED <<flagVars, lockVars, regVars, sessVars, events, obsVars>>
    /\ UNCHANGED <<co, cos, rcp, decs, freeing, asev>>
    /\ UNCHANGED mediaVars
    /\ UNCHANGED pliVars

\* janus_plugin_result_new(type, text, content)
janus_plugin_result_new(type, text, content) ==
    [type |-> type, text |-> text, content |-> content]

\* The early returns of janus_lua_handle_message: the error result, and no
\* call-in
janus_lua_handle_message_rejected(t, h) ==
    /\ At(t, "idle") /\ t \in Hosts /\ Callable(h)
    /\ Rejected \/ plugin_handle[h] = NULL
    /\ result' = [result EXCEPT ![t] =
          janus_plugin_result_new("JANUS_PLUGIN_ERROR",
              IF stopping THEN "Shutting down"
              ELSE IF ~initialized THEN "Plugin not initialized"
              ELSE "No session associated with this handle", NoJson)]
    /\ UNCHANGED <<flagVars, lockVars, regVars, sessVars, thrVars, events, lastHost, hungup>>
    /\ UNCHANGED mediaVars
    /\ UNCHANGED pliVars

\* (int)lua_tonumber(t, 1) of a status given in units of 1/StatusUnit: the
\* fraction is dropped, towards zero
ToInt(x) == IF x >= 0 THEN x \div StatusUnit ELSE -((-x) \div StatusUnit)

\* json_loads(response, 0, &error): the object of a well-formed text, NULL
\* for any other text and for no text
json_loads(text) == IF text = "{}" THEN "object" ELSE NoJson

\* What janus_lua_handle_message makes of the two values handleMessage
\* returned
HandleMessageResult(status, response) ==
    LET res == ToInt(status)
    IN IF res < 0
       THEN janus_plugin_result_new("JANUS_PLUGIN_ERROR",
                IF response # NoString THEN response ELSE "Lua error", NoJson)
       ELSE IF res = 0
            THEN IF json_loads(response) = NoJson
                 THEN janus_plugin_result_new("JANUS_PLUGIN_ERROR", "Lua error", NoJson)
                 ELSE janus_plugin_result_new("JANUS_PLUGIN_OK", NoString, json_loads(response))
            ELSE janus_plugin_result_new("JANUS_PLUGIN_OK_WAIT", NoString, NoJson)

\* handleMessage returns status and response: lua_mutex is released and the
\* result goes back to the host core
janus_lua_handle_message_return(t, status, response) ==
    /\ At(t, "script") /\ cin[t] = "handleMessage"
    /\ lua_mutex' = NULL
    /\ pc' = [pc EXCEPT ![t] = Return(t)]
    /\ cin' = [cin EXCEPT ![t] = "none"]
    /\ sess' = [sess EXCEPT ![t] = NULL]
    /\ result' = [result EXCEPT ![t] = HandleMessageResult(status, response)]
    /\ UNCHANGED <<flagVars, regVars, sessVars, events, lastHost, hungup>>
    /\ UNCHANGED <<sessions_mutex, recipients_mutex>>
    /\ UNCHANGED <<co, cos, rcp, decs, freeing, asev>>
    /\ UNCHANGED mediaVars
    /\ UNCHANGED pliVars

\* janus_lua_setup_media up to the call-in
janus_lua_setup_media(t, h) ==
    /\ At(t, "idle") /\ t \in Hosts /\ Callable(h)
    /\ ~Rejected /\ plugin_handle[h] # NULL
    /\ LET s == plugin_handle[h] IN
        /\ ~destroyed[s]
        /\ hangingup' = [hangingup EXCEPT ![s] = FALSE]
        /\ started' = [started EXCEPT ![s] = TRUE]
        /\ pli_latest' = [pli_latest EXCEPT ![s] = now]
        /\ pli_event' = [pli_event EXCEPT ![s] = now]
        /\ sess' = [sess EXCEPT ![t] = s]
    /\ pc' = [pc EXCEPT ![t] = "lua_wait"]
    /\ cin' = [cin EXCEPT ![t] = "setupMedia"]
    /\ UNCHANGED <<flagVars, lockVars, regVars, events, obsVars>>
    /\ UNCHANGED <<mem, sid, destroyed, ref, recipients>>
    /\ UNCHANGED <<co, cos, rcp, decs, freeing, asev>>
    /\ UNCHANGED mediaVars
    /\ UNCHANGED <<now, pli_freq, pli_now>>

\* janus_lua_incoming_rtcp and janus_lua_incoming_data when the script
\* defines the handler (has_incoming_rtcp, has_incoming_data): up to the
\* call-in of the function lua_getglobal has put on the stack
IncomingCallIn(t, h, name) ==
    /\ At(t, "idle") /\ t \in Hosts /\ Callable(h)
    /\ ~Rejected /\ plugin_handle[h] # NULL
    /\ LET s == plugin_handle[h] IN
        /\ ~destroyed[s] /\ ~hangingup[s]
        /\ sess' = [sess EXCEPT ![t] = s]
    /\ pc' = [pc EXCEPT ![t] = "lua_wait"]
    /\ cin' = [cin EXCEPT ![t] = name]
    /\ UNCHANGED <<flagVars, lockVars, regVars, sessVars, events, obsVars>>
    /\ UNCHANGED <<co, cos, rcp, decs, freeing, asev>>
    /\ UNCHANGED mediaVars
    /\ UNCHANGED pliVars

janus_lua_incoming_rtcp(t, h) ==
    has_incoming_rtcp /\ IncomingCallIn(t, h, "incomingRtcp")

janus_lua_incoming_data(t, h) ==
    has_incoming_data /\ IncomingCallIn(t, h, "incomingData")

\* janus_lua_incoming_rtcp when the script does not define incomingRtcp: a
\* REMB (janus_rtcp_get_remb(buf, len) > 0) goes back to the sender with
\* gateway->relay_rtcp, any other packet is dropped; no lock is taken.
janus_lua_incoming_rtcp_remb(t, h, bitrate) ==
    /\ At(t, "idle") /\ t \in Hosts /\ Callable(h)
    /\ ~Rejected /\ plugin_handle[h] # NULL
    /\ ~destroyed[plugin_handle[h]] /\ ~hangingup[plugin_handle[h]]
    /\ ~has_incoming_rtcp
    /\ bitrate > 0
    /\ lastHost' = [fn |-> "relay_rtcp", jsep |-> FALSE, helper |-> FALSE,
                    locked |-> lua_mutex = t]
    /\ UNCHANGED <<flagVars, lockVars, regVars, sessVars, thrVars, events, result, hungup>>
    /\ UNCHANGED mediaVars
    /\ UNCHANGED pliVars

\* janus_lua_incoming_rtp when the script defines incomingRtp, up to
\* janus_mutex_lock(&lua_mutex): no function is put on the stack of the new
\* Lua thread (there is no lua_getglobal(t, "incomingRtp"))
janus_lua_incoming_rtp(t, h) ==
    /\ At(t, "idle") /\ t \in Hosts /\ Callable(h)
    /\ ~Rejected /\ plugin_handle[h] # NULL
    /\ has_incoming_rtp
    /\ LET s == plugin_handle[h] IN
        /\ ~destroyed[s] /\ ~hangingup[s]
        /\ sess' = [sess EXCEPT ![t] = s]
    /\ pc' = [pc EXCEPT ![t] = "rtp_wait"]
    /\ UNCHANGED <<flagVars, lockVars, regVars, sessVars, events, obsVars>>
    /\ UNCHANGED <<cin, co, cos, rcp, decs, freeing, asev>>
    /\ UNCHANGED mediaVars
    /\ UNCHANGED pliVars

\* The lock is granted; lua_newthread, the four arguments are pushed and
\* lua_call(t, 4, 0) calls what lies below them, the nil at the base of the
\* new stack: Lua raises "attempt to call a nil value" outside of any
\* protected call, and its panic handler ends the process.
janus_lua_incoming_rtp_call(t) ==
    /\ At(t, "rtp_wait") /\ LuaLockGuard(t)
    /\ luaState = "open"
    /\ lua_mutex' = t
    /\ crashed' = TRUE
    /\ UNCHANGED <<initialized, stopping, luaState, lua_file, tables>>
    /\ UNCHANGED <<sessions_mutex, recipients_mutex>>
    /\ UNCHANGED <<regVars, sessVars, thrVars, obsVars, events>>
    /\ UNCHANGED mediaVars
    /\ UNCHANGED pliVars

\* janus_lua_relay_rtp_packet without janus_rtp_header_update
janus_lua_relay_rtp_packet_as_is(st, r) ==
    LET packet == st.packet
        m == IF packet.is_video THEN "video" ELSE "audio"
    IN IF ~started[r] \/ m \notin accept[r] THEN st
       ELSE [st EXCEPT !.relayed = [@ EXCEPT ![r] = [@ EXCEPT ![m] = packet.data]],
                       !.inputs = Append(@, packet.data), !.to = Append(@, r)]

\* janus_lua_relay_rtp_packet that leaves the header as it was sent
janus_lua_relay_rtp_packet_no_restore(st, r) ==
    LET packet == st.packet
        m == IF packet.is_video THEN "video" ELSE "audio"
        u == janus_rtp_header_update(packet.data, st.rtpctx[r], packet.is_video,
                                     Word(0, IF packet.is_video THEN 4500 ELSE 960))
    IN IF ~started[r] \/ m \notin accept[r] THEN st
       ELSE [packet |-> [packet EXCEPT !.data = u.header],
             rtpctx |-> [st.rtpctx EXCEPT ![r] = u.context],
             relayed |-> [st.relayed EXCEPT ![r] = [@ EXCEPT ![m] = u.header]],
             inputs |-> Append(st.inputs, packet.data),
             to |-> Append(st.to, r)]

\* janus_lua_relay_rtp_packet(data, user_data) for the recipient r: st holds
\* the packet, every session's rtpctx, the headers given to
\* gateway->relay_rtp, the headers janus_rtp_header_update started from, and
\* the sessions whose handle gateway->relay_rtp was called with.
\* The header is rewritten in the buffer, sent, and its timestamp and
\* sequence number are put back from the backup.
janus_lua_relay_rtp_packet(st, r) ==
    LET packet == st.packet
        m == IF packet.is_video THEN "video" ELSE "audio"
        u == janus_rtp_header_update(packet.data, st.rtpctx[r], packet.is_video,
                                     Word(0, IF packet.is_video THEN 4500 ELSE 960))
    IN IF ~started[r] \/ m \notin accept[r] THEN st
       ELSE [packet |-> [packet EXCEPT !.data = [u.header EXCEPT
                                          !.timestamp = htonl(packet.timestamp),
                                          !.seq_number = htons(packet.seq_number)]],
             rtpctx |-> [st.rtpctx EXCEPT ![r] = u.context],
             relayed |-> [st.relayed EXCEPT ![r] = [@ EXCEPT ![m] = u.header]],
             inputs |-> Append(st.inputs, packet.data),
             to |-> Append(st.to, r)]

\* g_slist_foreach(list, janus_lua_relay_rtp_packet, &packet)
RECURSIVE g_slist_foreach(_, _)
g_slist_foreach(list, st) ==
    IF list = <<>> THEN st
    ELSE g_slist_foreach(Tail(list), janus_lua_relay_rtp_packet(st, Head(list)))

\* The relay of the packet a thread holds to the recipients of its session
Relay(t) ==
    g_slist_foreach(recipients[sess[t]],
                    [packet |-> pkt[t], rtpctx |-> rtpctx, relayed |-> relayed, inputs |-> <<>>,
                     to |-> <<>>])

\* janus_lua_relay_packet packet; with the backup of the timestamp and the
\* sequence number the publisher set
Packet(s, video, p) ==
    LET data == Header(Ssrc(s, video), p.timestamp, p.seq_number)
    IN [is_video |-> video, data |-> data,
        timestamp |-> ntohl(data.timestamp), seq_number |-> ntohs(data.seq_number)]

\* if((video && !session->send_video) || (!video && !session->send_audio)) return;
Sends(s, m) == m \in send[s]

\* janus_lua_incoming_rtp when the script defines no handler, for the packet
\* p of the peer's stream: the frame is saved, and the recipients list locked
\* if it is free
janus_lua_incoming_rtp_relay(t, h, video, p) ==
    /\ At(t, "idle") /\ t \in Hosts /\ Callable(h)
    /\ ~Rejected /\ plugin_handle[h] # NULL
    /\ ~has_incoming_rtp
    /\ LET s == plugin_handle[h]
           m == IF video THEN "video" ELSE "audio"
           rc == recorder[s][m]
       IN /\ ~destroyed[s] /\ ~hangingup[s]
          /\ stream' = [stream EXCEPT ![s] = p]
          /\ IF ~Sends(s, m)
             THEN UNCHANGED <<pc, sess, pkt, recorders, recipients_mutex>>
             ELSE /\ rc # NULL => recorders[rc].frames < MaxFrames
                  /\ recorders' = janus_recorder_save_frame(recorders, rc)
                  /\ pkt' = [pkt EXCEPT ![t] = Packet(s, video, p)]
                  /\ sess' = [sess EXCEPT ![t] = s]
                  /\ IF recipients_mutex[s] = NULL
                     THEN /\ recipients_mutex' = [recipients_mutex EXCEPT ![s] = t]
                          /\ pc' = [pc EXCEPT ![t] = "relay"]
                     ELSE /\ pc' = [pc EXCEPT ![t] = "relay_wait"]
                          /\ UNCHANGED recipients_mutex
    /\ UNCHANGED <<flagVars, lua_mutex, sessions_mutex, regVars, sessVars, events, obsVars>>
    /\ UNCHANGED <<cin, co, cos, rcp, decs, freeing, asev>>
    /\ UNCHANGED <<rec_mutex, send, accept, recorder, rtpctx, specs, save_rc, relayed>>
    /\ UNCHANGED pliVars

\* janus_mutex_lock_nodebug(&session->recipients_mutex) is granted
janus_lua_incoming_rtp_lock(t) ==
    /\ At(t, "relay_wait")
    /\ recipients_mutex[sess[t]] = NULL
    /\ recipients_mutex' = [recipients_mutex EXCEPT ![sess[t]] = t]
    /\ pc' = [pc EXCEPT ![t] = "relay"]
    /\ UNCHANGED <<flagVars, lua_mutex, sessions_mutex, regVars, sessVars, events, obsVars>>
    /\ UNCHANGED <<cin, co, cos, sess, rcp, decs, freeing, asev>>
    /\ UNCHANGED mediaVars
    /\ UNCHANGED pliVars

\* if((now-session->pli_latest) >= ((gint64)session->pli_freq*G_USEC_PER_SEC))
PliDue(s, at) == at - pli_latest[s] >= pli_freq[s] * G_USEC_PER_SEC

\* g_slist_foreach(session->recipients, janus_lua_relay_rtp_packet, &packet);
\* janus_mutex_unlock_nodebug(&session->recipients_mutex); and, for video
\* with pli_freq > 0, the reading of the clock and the test of pli_latest
janus_lua_incoming_rtp_unlock(t) ==
    /\ At(t, "relay")
    /\ rtpctx' = Relay(t).rtpctx
    /\ relayed' = Relay(t).relayed
    /\ pkt' = [pkt EXCEPT ![t] = NoPacket]
    /\ recipients_mutex' = [recipients_mutex EXCEPT ![sess[t]] = NULL]
    /\ IF pkt[t].is_video /\ pli_freq[sess[t]] > 0 /\ PliDue(sess[t], now)
       THEN /\ pc' = [pc EXCEPT ![t] = "pli"]
            /\ pli_now' = [pli_now EXCEPT ![t] = now]
            /\ sess' = sess
       ELSE /\ pc' = [pc EXCEPT ![t] = "idle"]
            /\ sess' = [sess EXCEPT ![t] = NULL]
            /\ pli_now' = pli_now
    /\ UNCHANGED <<flagVars, lua_mutex, sessions_mutex, regVars, sessVars, events, obsVars>>
    /\ UNCHANGED <<cin, co, cos, rcp, decs, freeing, asev>>
    /\ UNCHANGED <<rec_mutex, send, accept, recorder, recorders, specs, save_rc, stream>>
    /\ UNCHANGED <<now, pli_freq, pli_latest, pli_event>>

\* session->pli_latest = now; janus_rtcp_pli; gateway->relay_rtcp(handle, 1,
\* rtcpbuf, 12): the keyframe request goes out
janus_lua_incoming_rtp_pli(t) ==
    /\ At(t, "pli")
    /\ pli_latest' = [pli_latest EXCEPT ![sess[t]] = pli_now[t]]
    /\ pli_event' = [pli_event EXCEPT ![sess[t]] = IF pli_now[t] > @ THEN pli_now[t] ELSE @]
    /\ pli_now' = [pli_now EXCEPT ![t] = 0]
    /\ pc' = [pc EXCEPT ![t] = "idle"]
    /\ sess' = [sess EXCEPT ![t] = NULL]
    /\ UNCHANGED <<flagVars, lockVars, regVars, sessVars, events, obsVars>>
    /\ UNCHANGED <<cin, co, cos, rcp, decs, freeing, asev>>
    /\ UNCHANGED mediaVars
    /\ UNCHANGED <<now, pli_freq>>

\* The monotonic clock moves on by half a second
Tick ==
    /\ now < MaxTime * G_USEC_PER_SEC
    /\ now' = now + G_USEC_PER_SEC \div 2
    /\ UNCHANGED <<flagVars, lockVars, regVars, sessVars, thrVars, obsVars, events, mediaVars>>
    /\ UNCHANGED <<pli_freq, pli_latest, pli_event, pli_now>>

\* janus_lua_relay_data_packet that looks neither at started nor at accept_data
janus_lua_relay_data_packet_unchecked(to, r) == Append(to, r)

\* janus_lua_relay_data_packet(data, user_data) for the recipient r: to holds
\* the sessions whose handle gateway->relay_data was called with
janus_lua_relay_data_packet(to, r) ==
    IF ~started[r] \/ "data" \notin accept[r] THEN to ELSE Append(to, r)

\* g_slist_foreach(list, janus_lua_relay_data_packet, text)
RECURSIVE RelayDataList(_, _)
RelayDataList(list, to) ==
    IF list = <<>> THEN to
    ELSE RelayDataList(Tail(list), janus_lua_relay_data_packet(to, Head(list)))

\* The relay of the data a thread holds to the recipients of its session
RelayData(t) == RelayDataList(recipients[sess[t]], <<>>)

\* janus_lua_incoming_data when the script does not define incomingData, up
\* to the lock of the recipient list
janus_lua_incoming_data_relay(t, h) ==
    /\ At(t, "idle") /\ t \in Hosts /\ Callable(h)
    /\ ~Rejected /\ plugin_handle[h] # NULL
    /\ ~has_incoming_data
    /\ LET s == plugin_handle[h]
           rc == recorder[s]["data"]
       IN /\ ~destroyed[s] /\ ~hangingup[s]
          /\ IF ~Sends(s, "data")
             THEN UNCHANGED <<pc, sess, recorders, recipients_mutex>>
             ELSE /\ rc # NULL => recorders[rc].frames < MaxFrames
                  /\ recorders' = janus_recorder_save_frame(recorders, rc)
                  /\ sess' = [sess EXCEPT ![t] = s]
                  /\ IF recipients_mutex[s] = NULL
                     THEN /\ recipients_mutex' = [recipients_mutex EXCEPT ![s] = t]
                          /\ pc' = [pc EXCEPT ![t] = "relay_data"]
                     ELSE /\ pc' = [pc EXCEPT ![t] = "data_wait"]
                          /\ UNCHANGED recipients_mutex
    /\ UNCHANGED <<flagVars, lua_mutex, sessions_mutex, regVars, sessVars, events, obsVars>>
    /\ UNCHANGED <<cin, co, cos, rcp, decs, freeing, asev>>
    /\ UNCHANGED <<rec_mutex, send, accept, recorder, rtpctx, specs, pkt, save_rc, stream, relayed>>
    /\ UNCHANGED pliVars

\* janus_mutex_lock_nodebug(&session->recipients_mutex) of incoming_data is
\* granted
janus_lua_incoming_data_lock(t) ==
    /\ At(t, "data_wait")
    /\ recipients_mutex[sess[t]] = NULL
    /\ recipients_mutex' = [recipients_mutex EXCEPT ![sess[t]] = t]
    /\ pc' = [pc EXCEPT ![t] = "relay_data"]
    /\ UNCHANGED <<flagVars, lua_mutex, sessions_mutex, regVars, sessVars, events, obsVars>>
    /\ UNCHANGED <<cin, co, cos, sess, rcp, decs, freeing, asev>>
    /\ UNCHANGED mediaVars
    /\ UNCHANGED pliVars

\* g_slist_foreach(session->recipients, janus_lua_relay_data_packet, text);
\* janus_mutex_unlock_nodebug(&session->recipients_mutex)
janus_lua_incoming_data_unlock(t) ==
    /\ At(t, "relay_data")
    /\ recipients_mutex' = [recipients_mutex EXCEPT ![sess[t]] = NULL]
    /\ pc' = [pc EXCEPT ![t] = "idle"]
    /\ sess' = [sess EXCEPT ![t] = NULL]
    /\ UNCHANGED <<flagVars, lua_mutex, sessions_mutex, regVars, sessVars, events, obsVars>>
    /\ UNCHANGED <<cin, co, cos, rcp, decs, freeing, asev>>
    /\ UNCHANGED mediaVars
    /\ UNCHANGED pliVars

\* janus_lua_incoming_rtp when the script defines no handler, up to the
\* argument of janus_recorder_save_frame: video ? session->vrc :
\* session->arc is read, with no lock held
janus_lua_incoming_rtp_frame(t, h, video, p) ==
    /\ At(t, "idle") /\ t \in Hosts /\ Callable(h)
    /\ ~Rejected /\ plugin_handle[h] # NULL
    /\ ~has_incoming_rtp
    /\ LET s == plugin_handle[h]
           m == IF video THEN "video" ELSE "audio"
       IN /\ ~destroyed[s] /\ ~hangingup[s]
          /\ Sends(s, m)
          /\ stream' = [stream EXCEPT ![s] = p]
          /\ save_rc' = [save_rc EXCEPT ![t] = recorder[s][m]]
          /\ pkt' = [pkt EXCEPT ![t] = Packet(s, video, p)]
          /\ sess' = [sess EXCEPT ![t] = s]
    /\ pc' = [pc EXCEPT ![t] = "save"]
    /\ UNCHANGED <<flagVars, lockVars, regVars, sessVars, events, obsVars>>
    /\ UNCHANGED <<cin, co, cos, rcp, decs, freeing, asev>>
    /\ UNCHANGED <<rec_mutex, send, accept, recorder, recorders, rtpctx, specs, relayed>>
    /\ UNCHANGED pliVars

\* janus_lua_incoming_data when the script defines no handler, up to the
\* argument of janus_recorder_save_frame: session->drc is read, with no
\* lock held
janus_lua_incoming_data_frame(t, h) ==
    /\ At(t, "idle") /\ t \in Hosts /\ Callable(h)
    /\ ~Rejected /\ plugin_handle[h] # NULL
    /\ ~has_incoming_data
    /\ LET s == plugin_handle[h]
       IN /\ ~destroyed[s] /\ ~hangingup[s]
          /\ Sends(s, "data")
          /\ save_rc' = [save_rc EXCEPT ![t] = recorder[s]["data"]]
          /\ sess' = [sess EXCEPT ![t] = s]
    /\ pc' = [pc EXCEPT ![t] = "save_data"]
    /\ UNCHANGED <<flagVars, lockVars, regVars, sessVars, events, obsVars>>
    /\ UNCHANGED <<cin, co, cos, rcp, decs, freeing, asev>>
    /\ UNCHANGED <<rec_mutex, send, accept, recorder, recorders, rtpctx, specs, pkt, stream, relayed>>
    /\ UNCHANGED pliVars

\* What janus_recorder_save_frame(rc, buf, len) can leave: a recorder that
\* was freed since rc was read is memory the process no longer owns, and the
\* call may write the frame into it, find it closed, or fault
SaveFrameOutcomes(rs, rc) ==
    IF rc # NULL /\ rs[rc].freed
    THEN {[recorders |-> rs, fault |-> FALSE],
          [recorders |-> [rs EXCEPT ![rc].frames = @ + 1], fault |-> FALSE],
          [recorders |-> rs, fault |-> TRUE]}
    ELSE {[recorders |-> janus_recorder_save_frame(rs, rc), fault |-> FALSE]}

\* janus_recorder_save_frame with the recorder read before, then on to
\* janus_mutex_lock_nodebug(&session->recipients_mutex)
janus_lua_incoming_save(t) ==
    /\ ~crashed /\ pc[t] \in {"save", "save_data"}
    /\ save_rc[t] # NULL => recorders[save_rc[t]].frames < MaxFrames
    /\ \E o \in SaveFrameOutcomes(recorders, save_rc[t]) :
          /\ recorders' = o.recorders
          /\ crashed' = o.fault
    /\ save_rc' = [save_rc EXCEPT ![t] = NULL]
    /\ pc' = [pc EXCEPT ![t] = IF pc[t] = "save" THEN "relay_wait" ELSE "data_wait"]
    /\ UNCHANGED <<initialized, stopping, luaState, lua_file, tables>>
    /\ UNCHANGED <<lockVars, regVars, sessVars, events, obsVars>>
    /\ UNCHANGED <<cin, co, cos, sess, rcp, decs, freeing, asev>>
    /\ UNCHANGED <<rec_mutex, send, accept, recorder, rtpctx, specs, pkt, stream, relayed>>
    /\ UNCHANGED pliVars

\* janus_lua_hangup_media up to the recipients lock.  The core calls it on a
\* host thread, or from inside gateway->close_pc on the helper thread.
janus_lua_hangup_media(t, h) ==
    /\ \/ At(t, "idle") /\ t \in Hosts /\ Callable(h)
       \/ At(t, "helper_cb") /\ h = asev[t].session
    /\ LET s == plugin_handle[h]
           pass == ~Rejected /\ s # NULL /\ ~destroyed[s] /\ ~hangingup[s]
       IN /\ pass \/ t \in Workers
          /\ IF pass
             THEN /\ hangingup' = [hangingup EXCEPT ![s] = TRUE]
                  /\ started' = [started EXCEPT ![s] = FALSE]
                  /\ accept' = [accept EXCEPT ![s] = {}]
                  /\ send' = [send EXCEPT ![s] = {}]
                  /\ rtpctx' = [rtpctx EXCEPT ![s] = janus_rtp_switching_context_reset]
                  /\ relayed' = [relayed EXCEPT ![s] = NoRelayed]
                  /\ pli_freq' = [pli_freq EXCEPT ![s] = 0]
                  /\ pli_latest' = [pli_latest EXCEPT ![s] = 0]
                  /\ sess' = [sess EXCEPT ![t] = s]
                  /\ pc' = [pc EXCEPT ![t] = "hm_lock"]
                  /\ hungup' = hungup
             ELSE /\ pc' = [pc EXCEPT ![t] = Return(t)]
                  /\ hungup' = [hungup EXCEPT ![h] = TRUE]
                  /\ UNCHANGED <<hangingup, started, sess, accept, send, rtpctx, relayed>>
                  /\ UNCHANGED <<pli_freq, pli_latest>>
    /\ UNCHANGED <<flagVars, lockVars, regVars, events, lastHost, result>>
    /\ UNCHANGED <<mem, sid, destroyed, ref, recipients>>
    /\ UNCHANGED <<cin, co, cos, rcp, decs, freeing, asev>>
    /\ UNCHANGED <<rec_mutex, recorder, recorders, specs, pkt, save_rc, stream>>
    /\ UNCHANGED <<now, pli_event, pli_now>>

\* The early returns of janus_lua_hangup_media on a thread of the core: the
\* plugin is stopping or not initialized, the handle has no session, the
\* session is destroyed, or it is hanging up already
janus_lua_hangup_media_rejected(t, h) ==
    /\ At(t, "idle") /\ t \in Hosts /\ Callable(h)
    /\ LET s == plugin_handle[h]
       IN Rejected \/ s = NULL \/ destroyed[s] \/ hangingup[s]
    /\ hungup' = [hungup EXCEPT ![h] = TRUE]
    /\ UNCHANGED <<flagVars, lockVars, regVars, sessVars, thrVars, events, lastHost, result>>
    /\ UNCHANGED mediaVars
    /\ UNCHANGED pliVars

\* janus_mutex_lock(&session->recipients_mutex)
janus_lua_hangup_media_lock(t) ==
    /\ At(t, "hm_lock")
    /\ recipients_mutex[sess[t]] = NULL
    /\ recipients_mutex' = [recipients_mutex EXCEPT ![sess[t]] = t]
    /\ pc' = [pc EXCEPT ![t] = "hm_loop"]
    /\ UNCHANGED <<flagVars, lua_mutex, sessions_mutex, regVars, sessVars, events, obsVars>>
    /\ UNCHANGED <<cin, co, cos, sess, rcp, decs, freeing, asev>>
    /\ UNCHANGED mediaVars
    /\ UNCHANGED pliVars

\* A hangup_media that keeps the recipients list locked over its call-in
HangupKeepsLock(s) == recipients_mutex

\* janus_mutex_unlock(&session->recipients_mutex), before lua_mutex is asked for
HangupUnlock(s) == [recipients_mutex EXCEPT ![s] = NULL]

\* while(session->recipients) { remove the first; release both references }
\* and, once the list is empty, the unlock and on to the hangupMedia call-in
janus_lua_hangup_media_loop(t) ==
    /\ At(t, "hm_loop")
    /\ LET s == sess[t] IN
       IF recipients[s] # <<>>
       THEN /\ recipients' = [recipients EXCEPT ![s] = Tail(@)]
            /\ decs' = [decs EXCEPT ![t] = <<s, Head(recipients[s])>>]
            /\ UNCHANGED <<pc, cin, recipients_mutex>>
       ELSE /\ recipients_mutex' = HangupUnlock(s)
            /\ pc' = [pc EXCEPT ![t] = "lua_wait"]
            /\ cin' = [cin EXCEPT ![t] = "hangupMedia"]
            /\ UNCHANGED <<recipients, decs>>
    /\ UNCHANGED <<flagVars, lua_mutex, sessions_mutex, regVars, events, obsVars>>
    /\ UNCHANGED <<mem, sid, destroyed, hangingup, started, ref>>
    /\ UNCHANGED <<co, cos, sess, rcp, freeing, asev>>
    /\ UNCHANGED mediaVars
    /\ UNCHANGED pliVars

----------------------------------------------------------------------------
\* janus_lua_async_event_helper, the deferred worker

\* A call into the host core: which function, whether with a jsep, whether
\* made by the body of janus_lua_async_event_helper, and whether the calling
\* thread owns lua_mutex
HostCall(t, fn, jsep) ==
    [fn |-> fn, jsep |-> jsep, helper |-> pc[t] = "helper", locked |-> lua_mutex = t]

\* gateway->push_event(...) or gateway->close_pc(...); close_pc makes the
\* core call hangup_media on this thread when the handle has a PeerConnection
janus_lua_async_event_helper(t) ==
    /\ At(t, "helper")
    /\ IF asev[t].type = "pushevent"
       THEN /\ lastHost' = HostCall(t, "push_event", TRUE)
            /\ pc' = [pc EXCEPT ![t] = "helper_release"]
       ELSE /\ lastHost' = HostCall(t, "close_pc", FALSE)
            /\ \E next \in {"helper_cb", "helper_release"} :
                  pc' = [pc EXCEPT ![t] = next]
    /\ result' = result
    /\ hungup' = hungup
    /\ UNCHANGED <<flagVars, lockVars, regVars, sessVars, events>>
    /\ UNCHANGED <<cin, co, cos, sess, rcp, decs, freeing, asev>>
    /\ UNCHANGED mediaVars
    /\ UNCHANGED pliVars

\* janus_refcount_decrease(&asev->session->ref); g_free(asev)
janus_lua_async_event_helper_release(t) ==
    /\ At(t, "helper_release")
    /\ decs' = [decs EXCEPT ![t] = <<asev[t].session>>]
    /\ asev' = [asev EXCEPT ![t] = NoAsev]
    /\ pc' = [pc EXCEPT ![t] = "idle"]
    /\ UNCHANGED <<flagVars, lockVars, regVars, sessVars, events, obsVars>>
    /\ UNCHANGED <<cin, co, cos, sess, rcp, freeing>>
    /\ UNCHANGED mediaVars
    /\ UNCHANGED pliVars

----------------------------------------------------------------------------
\* The call-outs, run by the thread that is inside the script

\* The call-outs on one session.  pushEventJsep is pushEvent with a jsep;
\* configureMedium, relayRtp and relayData stand also for the call-outs of
\* the same shape (setBitrate, setPliFreq, sendPli; relayRtcp).
CallOuts == {"pushEvent", "pushEventJsep", "notifyEvent", "closePc",
             "configureMedium", "relayRtp", "relayData"}

\* if(session == NULL || g_atomic_int_get(&session->destroyed)): notifyEvent
\* and removeRecipient test session == NULL alone
ChecksDestroyed(name) == name \notin {"notifyEvent", "removeRecipient"}

\* janus_refcount_increase(&session->ref) before the registry lock is
\* released: relayRtp and relayRtcp do not
TakesRef(name) == name # "relayRtp"

Inc(f, s) == [f EXCEPT ![s] = @ + 1]

\* static int janus_lua_method_pokescheduler(lua_State *s)
janus_lua_method_pokescheduler(t) ==
    /\ At(t, "script")
    /\ tables = "live" /\ Len(events) < MaxQueue
    /\ events' = Append(events, janus_lua_event_resume)
    /\ UNCHANGED <<flagVars, lockVars, regVars, sessVars, thrVars, obsVars>>
    /\ UNCHANGED mediaVars
    /\ UNCHANGED pliVars

\* A one-session call-out from its start to janus_mutex_unlock(&sessions_mutex)
janus_lua_method_lookup(t, name, id) ==
    /\ At(t, "script") /\ sessions_mutex = NULL
    /\ LET s == ids[id] IN
        /\ IF s = NULL \/ (ChecksDestroyed(name) /\ destroyed[s])
           THEN UNCHANGED <<ref, pc, co, cos>>
           ELSE /\ ref' = IF TakesRef(name) THEN Inc(ref, s) ELSE ref
                /\ pc' = [pc EXCEPT ![t] = "co_use"]
                /\ co' = [co EXCEPT ![t] = name]
                /\ cos' = [cos EXCEPT ![t] = s]
    /\ UNCHANGED <<flagVars, lockVars, regVars, events, obsVars>>
    /\ UNCHANGED <<mem, sid, destroyed, hangingup, started, recipients>>
    /\ UNCHANGED <<cin, sess, rcp, decs, freeing, asev>>
    /\ UNCHANGED mediaVars
    /\ UNCHANGED pliVars

\* The call-outs that act on this thread: the host call or the field write,
\* then the release of the reference taken
janus_lua_method_use(t) ==
    /\ At(t, "co_use")
    /\ co[t] \notin {"pushEventJsep", "closePc", "configureMedium", "setPliFreq", "sendPli"}
    /\ lastHost' = IF co[t] = "pushEvent" THEN HostCall(t, "push_event", FALSE) ELSE lastHost
    /\ result' = result
    /\ hungup' = hungup
    /\ decs' = [decs EXCEPT ![t] = IF TakesRef(co[t]) THEN <<cos[t]>> ELSE <<>>]
    /\ pc' = [pc EXCEPT ![t] = "script"]
    /\ co' = [co EXCEPT ![t] = "none"]
    /\ cos' = [cos EXCEPT ![t] = NULL]
    /\ UNCHANGED <<flagVars, lockVars, regVars, sessVars, events>>
    /\ UNCHANGED <<cin, sess, rcp, freeing, asev>>
    /\ UNCHANGED mediaVars
    /\ UNCHANGED pliVars

\* setPliFreq on the session it holds: guint16 pli_freq = lua_tonumber(s, 2);
\* session->pli_freq = pli_freq
janus_lua_method_setplifreq(t, freq) ==
    /\ At(t, "co_use") /\ co[t] = "setPliFreq"
    /\ pli_freq' = [pli_freq EXCEPT ![cos[t]] = freq % Half]
    /\ decs' = [decs EXCEPT ![t] = <<cos[t]>>]
    /\ pc' = [pc EXCEPT ![t] = "script"]
    /\ co' = [co EXCEPT ![t] = "none"]
    /\ cos' = [cos EXCEPT ![t] = NULL]
    /\ UNCHANGED <<flagVars, lockVars, regVars, sessVars, events, obsVars>>
    /\ UNCHANGED <<cin, sess, rcp, freeing, asev>>
    /\ UNCHANGED mediaVars
    /\ UNCHANGED <<now, pli_latest, pli_event, pli_now>>

\* sendPli on the session it holds: session->pli_latest =
\* janus_get_monotonic_time(); gateway->relay_rtcp(session->handle, ...)
janus_lua_method_sendpli(t) ==
    /\ At(t, "co_use") /\ co[t] = "sendPli"
    /\ pli_latest' = [pli_latest EXCEPT ![cos[t]] = now]
    /\ pli_event' = [pli_event EXCEPT ![cos[t]] = now]
    /\ decs' = [decs EXCEPT ![t] = <<cos[t]>>]
    /\ pc' = [pc EXCEPT ![t] = "script"]
    /\ co' = [co EXCEPT ![t] = "none"]
    /\ cos' = [cos EXCEPT ![t] = NULL]
    /\ UNCHANGED <<flagVars, lockVars, regVars, sessVars, events, obsVars>>
    /\ UNCHANGED <<cin, sess, rcp, freeing, asev>>
    /\ UNCHANGED mediaVars
    /\ UNCHANGED <<now, pli_freq, pli_now>>

\* A closePc or pushEvent that makes the host call on the calling thread
DeferNot(t, w) ==
    /\ lastHost' = HostCall(t, IF co[t] = "closePc" THEN "close_pc" ELSE "push_event",
                            co[t] = "pushEventJsep")
    /\ result' = result
    /\ hungup' = hungup
    /\ decs' = [decs EXCEPT ![t] = <<cos[t]>>]
    /\ pc' = [pc EXCEPT ![t] = "script"]
    /\ UNCHANGED asev

\* What closePc and pushEvent with a jsep do with the session they hold:
\* g_thread_try_new gives the helper w the event, or fails (w = NULL)
Defer(t, w) ==
    IF w # NULL
    THEN /\ asev' = [asev EXCEPT ![w] =
                [type |-> IF co[t] = "closePc" THEN "closepc" ELSE "pushevent",
                 session |-> cos[t]]]
         /\ pc' = [pc EXCEPT ![t] = "script", ![w] = "helper"]
         /\ UNCHANGED <<decs, lastHost, result, hungup>>
    ELSE /\ decs' = [decs EXCEPT ![t] = <<cos[t]>>]
         /\ pc' = [pc EXCEPT ![t] = "script"]
         /\ UNCHANGED <<asev, lastHost, result, hungup>>

\* lua_pushnumber(s, error ? 1 : 0): what closePc and pushEvent with a jsep
\* return to the script
DeferStatus(w) == IF w = NULL THEN 1 ELSE 0

\* The helper threads g_thread_try_new can start, and NULL for its failure
Launches == {x \in Workers : At(x, "idle")} \cup {NULL}

janus_lua_method_defer(t) ==
    /\ At(t, "co_use") /\ co[t] \in {"pushEventJsep", "closePc"}
    /\ \E w \in Launches : Defer(t, w)
    /\ co' = [co EXCEPT ![t] = "none"]
    /\ cos' = [cos EXCEPT ![t] = NULL]
    /\ UNCHANGED <<flagVars, lockVars, regVars, sessVars, events>>
    /\ UNCHANGED <<cin, sess, rcp, freeing>>
    /\ UNCHANGED mediaVars
    /\ UNCHANGED pliVars

----------------------------------------------------------------------------
\* addRecipient and removeRecipient.  Their effect on the reference counts
\* and the recipient lists is written over a record [ref, recipients], so
\* that whole calls can be composed.

Rel == [ref |-> ref, recipients |-> recipients]

RECURSIVE Release(_, _)
\* janus_refcount_decrease on each session of q, in order
Release(r, q) ==
    IF q = <<>> THEN r ELSE Release([r EXCEPT ![Head(q)] = @ - 1], Tail(q))

\* g_slist_remove(list, r): the list without the first r
RECURSIVE g_slist_remove(_, _)
g_slist_remove(list, r) ==
    IF list = <<>> THEN <<>>
    ELSE IF Head(list) = r THEN Tail(list)
    ELSE <<Head(list)>> \o g_slist_remove(Tail(list), r)

\* janus_refcount_increase on the session and on the recipient, under
\* sessions_mutex
RecipientLookup(st, s, r) == [st EXCEPT !.ref = Inc(Inc(@, s), r)]

\* An addRecipient without the g_slist_find test
AddRecipientListUnchecked(st, s, r) ==
    [ref |-> Inc(Inc(st.ref, s), r),
     recipients |-> [st.recipients EXCEPT ![s] = Append(@, r)]]

\* if(g_slist_find(session->recipients, recipient) == NULL) { ... }
AddRecipientList(st, s, r) ==
    IF r \in Range(st.recipients[s]) THEN st
    ELSE [ref |-> Inc(Inc(st.ref, s), r),
          recipients |-> [st.recipients EXCEPT ![s] = Append(@, r)]]

\* if(g_slist_find(session->recipients, recipient) != NULL) { ... }
RemoveRecipientList(st, s, r) ==
    IF r \in Range(st.recipients[s])
    THEN [st EXCEPT !.recipients = [@ EXCEPT ![s] = g_slist_remove(@, r)]]
    ELSE st

\* A removeRecipient that releases the relation's references unconditionally
RemoveRecipientDecsAlways(st, s, r) == <<s, r, s, r>>

\* The references removeRecipient releases after the list was unlocked
RemoveRecipientDecs(st, s, r) ==
    (IF r \in Range(st.recipients[s]) THEN <<s, r>> ELSE <<>>) \o <<s, r>>

\* lua_pushnumber(s, -1) or lua_pushnumber(s, 0): the status the two call-outs
\* return for the sessions the lookups gave
RecipientStatus(name, s, r) ==
    IF s = NULL \/ (ChecksDestroyed(name) /\ destroyed[s]) THEN -1
    ELSE IF r = NULL \/ (ChecksDestroyed(name) /\ destroyed[r]) THEN -1
    ELSE 0

\* A whole addRecipient(s, r) and removeRecipient(s, r) on found sessions
AddRecipient(st, s, r) ==
    LET a == AddRecipientList(RecipientLookup(st, s, r), s, r)
    IN [a EXCEPT !.ref = Release(@, <<s, r>>)]

RemoveRecipient(st, s, r) ==
    LET l == RecipientLookup(st, s, r)
        a == RemoveRecipientList(l, s, r)
    IN [a EXCEPT !.ref = Release(@, RemoveRecipientDecs(l, s, r))]

\* addRecipient and removeRecipient from their start to the lock of
\* session->recipients_mutex, which is taken before sessions_mutex is
\* released: the thread waits with sessions_mutex held if the list is locked
janus_lua_method_recipient_lookup(t, name, id, rid) ==
    /\ At(t, "script") /\ sessions_mutex = NULL
    /\ LET s == ids[id]
           r == ids[rid]
       IN /\ IF RecipientStatus(name, s, r) < 0
             THEN UNCHANGED <<ref, pc, co, cos, rcp, sessions_mutex, recipients_mutex>>
             ELSE /\ ref' = RecipientLookup(Rel, s, r).ref
                  /\ co' = [co EXCEPT ![t] = name]
                  /\ cos' = [cos EXCEPT ![t] = s]
                  /\ rcp' = [rcp EXCEPT ![t] = r]
                  /\ IF recipients_mutex[s] = NULL
                     THEN /\ recipients_mutex' = [recipients_mutex EXCEPT ![s] = t]
                          /\ pc' = [pc EXCEPT ![t] = "co_list"]
                          /\ UNCHANGED sessions_mutex
                     ELSE /\ sessions_mutex' = t
                          /\ pc' = [pc EXCEPT ![t] = "co_wait"]
                          /\ UNCHANGED recipients_mutex
    /\ UNCHANGED <<flagVars, lua_mutex, regVars, events, obsVars>>
    /\ UNCHANGED <<mem, sid, destroyed, hangingup, started, recipients>>
    /\ UNCHANGED <<cin, sess, decs, freeing, asev>>
    /\ UNCHANGED mediaVars
    /\ UNCHANGED pliVars

\* The recipients lock is granted; janus_mutex_unlock(&sessions_mutex)
janus_lua_method_recipient_wait(t) ==
    /\ At(t, "co_wait")
    /\ recipients_mutex[cos[t]] = NULL
    /\ recipients_mutex' = [recipients_mutex EXCEPT ![cos[t]] = t]
    /\ sessions_mutex' = NULL
    /\ pc' = [pc EXCEPT ![t] = "co_list"]
    /\ UNCHANGED <<flagVars, lua_mutex, regVars, sessVars, events, obsVars>>
    /\ UNCHANGED <<cin, co, cos, sess, rcp, decs, freeing, asev>>
    /\ UNCHANGED mediaVars
    /\ UNCHANGED pliVars

\* The list is read and changed, the lock released, and the references of
\* the call are queued for release
janus_lua_method_recipient_list(t) ==
    /\ At(t, "co_list")
    /\ LET s == cos[t]
           r == rcp[t]
           st == IF co[t] = "addRecipient" THEN AddRecipientList(Rel, s, r)
                 ELSE RemoveRecipientList(Rel, s, r)
       IN /\ ref' = st.ref
          /\ recipients' = st.recipients
          /\ decs' = [decs EXCEPT ![t] =
                IF co[t] = "addRecipient" THEN <<s, r>> ELSE RemoveRecipientDecs(Rel, s, r)]
          /\ recipients_mutex' = [recipients_mutex EXCEPT ![s] = NULL]
    /\ pc' = [pc EXCEPT ![t] = "script"]
    /\ co' = [co EXCEPT ![t] = "none"]
    /\ cos' = [cos EXCEPT ![t] = NULL]
    /\ rcp' = [rcp EXCEPT ![t] = NULL]
    /\ UNCHANGED <<flagVars, lua_mutex, sessions_mutex, regVars, events, obsVars>>
    /\ UNCHANGED <<mem, sid, destroyed, hangingup, started>>
    /\ UNCHANGED <<cin, sess, freeing, asev>>
    /\ UNCHANGED mediaVars
    /\ UNCHANGED pliVars

----------------------------------------------------------------------------
\* startRecording and stopRecording.  Their effect is written over a record
\* [fields, recorders]: the session's arc, vrc and drc by medium, and the
\* recorder objects, so that whole calls can be composed.

Rec(s) == [fields |-> recorder[s], recorders |-> recorders]

\* A startRecording that does not look for a recorder of the same medium
NeverDuplicate(loc, fields, type) == FALSE

\* if(arc != NULL || session->arc != NULL), and the same for vrc and drc
Duplicate(loc, fields, type) == loc[type] # NULL \/ fields[type] # NULL

\* The while loop of startRecording over the media q, ok[i] telling whether
\* the i-th recorder can be created: st holds the locals arc, vrc and drc,
\* the recorder objects, and whether the loop left by goto error
RECURSIVE StartRecordingLoop(_, _, _, _)
StartRecordingLoop(fields, q, ok, st) ==
    IF q = <<>> THEN st
    ELSE LET type == Head(q)
             rc == janus_recorder_create(st.recorders, Head(ok))
             made == Created(st.recorders, rc)
         IN IF rc = NULL THEN [st EXCEPT !.error = TRUE]
            ELSE IF Duplicate(st.loc, fields, type)
                 THEN [st EXCEPT !.recorders = made, !.error = TRUE]
            ELSE StartRecordingLoop(fields, Tail(q), Tail(ok),
                                    [st EXCEPT !.recorders = made, !.loc = [@ EXCEPT ![type] = rc]])

\* A whole startRecording on a found session: the status returned, the
\* session's recorders and the recorder objects afterwards
StartRecording(R, q, ok) ==
    LET st == StartRecordingLoop(R.fields, q, ok,
                                 [loc |-> NoRecorders, recorders |-> R.recorders, error |-> FALSE])
    IN IF st.error
       THEN [status |-> -1, fields |-> R.fields,
             recorders |-> FreeAll(st.recorders, st.loc)]
       ELSE [status |-> 0,
             fields |-> [m \in Media |-> IF st.loc[m] # NULL THEN st.loc[m] ELSE R.fields[m]],
             recorders |-> st.recorders]

\* A stopRecording that closes the recorder and keeps the pointer to it
StopMediumKeep(R, type) ==
    [R EXCEPT !.recorders = janus_recorder_free(janus_recorder_close(@, R.fields[type]), R.fields[type])]

\* if(session->arc != NULL) { close; free; session->arc = NULL; } and the
\* same for vrc and drc
StopMedium(R, type) ==
    IF R.fields[type] # NULL
    THEN [fields |-> [R.fields EXCEPT ![type] = NULL],
          recorders |-> janus_recorder_free(janus_recorder_close(R.recorders, R.fields[type]),
                                            R.fields[type])]
    ELSE R

\* A whole stopRecording on a found session, over the media q
RECURSIVE StopRecording(_, _)
StopRecording(R, q) ==
    IF q = <<>> THEN [status |-> 0, fields |-> R.fields, recorders |-> R.recorders]
    ELSE StopRecording(StopMedium(R, Head(q)), Tail(q))

\* The ways the recorders named in a call of startRecording can fail to open
Outcomes(q) == [1..Len(q) -> BOOLEAN]

\* startRecording and stopRecording from their start to the lock of
\* session->rec_mutex, which is taken before sessions_mutex is released
janus_lua_method_recording_lookup(t, name, id, q) ==
    /\ At(t, "script") /\ sessions_mutex = NULL
    /\ LET s == ids[id] IN
        /\ IF s = NULL \/ destroyed[s]
           THEN UNCHANGED <<ref, pc, co, cos, specs, rec_mutex>>
           ELSE /\ rec_mutex[s] = NULL
                /\ ref' = Inc(ref, s)
                /\ rec_mutex' = [rec_mutex EXCEPT ![s] = t]
                /\ pc' = [pc EXCEPT ![t] = "co_rec"]
                /\ co' = [co EXCEPT ![t] = name]
                /\ cos' = [cos EXCEPT ![t] = s]
                /\ specs' = [specs EXCEPT ![t] = q]
    /\ UNCHANGED <<flagVars, lockVars, regVars, events, obsVars>>
    /\ UNCHANGED <<mem, sid, destroyed, hangingup, started, recipients>>
    /\ UNCHANGED <<cin, sess, rcp, decs, freeing, asev>>
    /\ UNCHANGED <<send, accept, recorder, recorders, rtpctx, pkt, save_rc, stream, relayed>>
    /\ UNCHANGED pliVars

\* The body of startRecording under rec_mutex, to its return
janus_lua_method_startrecording(t) ==
    /\ At(t, "co_rec") /\ co[t] = "startRecording"
    /\ LET s == cos[t] IN
        /\ \E ok \in Outcomes(specs[t]) :
              LET r == StartRecording(Rec(s), specs[t], ok)
              IN /\ recorder' = [recorder EXCEPT ![s] = r.fields]
                 /\ recorders' = r.recorders
        /\ rec_mutex' = [rec_mutex EXCEPT ![s] = NULL]
        /\ decs' = [decs EXCEPT ![t] = <<s>>]
    /\ pc' = [pc EXCEPT ![t] = "script"]
    /\ co' = [co EXCEPT ![t] = "none"]
    /\ cos' = [cos EXCEPT ![t] = NULL]
    /\ specs' = [specs EXCEPT ![t] = <<>>]
    /\ UNCHANGED <<flagVars, lockVars, regVars, sessVars, events, obsVars>>
    /\ UNCHANGED <<cin, sess, rcp, freeing, asev>>
    /\ UNCHANGED <<send, accept, rtpctx, pkt, save_rc, stream, relayed>>
    /\ UNCHANGED pliVars

\* One turn of the while loop of stopRecording under rec_mutex
janus_lua_method_stoprecording(t) ==
    /\ At(t, "co_rec") /\ co[t] = "stopRecording" /\ specs[t] # <<>>
    /\ LET s == cos[t]
           r == StopMedium(Rec(s), Head(specs[t]))
       IN /\ recorder' = [recorder EXCEPT ![s] = r.fields]
          /\ recorders' = r.recorders
    /\ specs' = [specs EXCEPT ![t] = Tail(@)]
    /\ UNCHANGED <<flagVars, lockVars, regVars, sessVars, thrVars, events, obsVars>>
    /\ UNCHANGED <<rec_mutex, send, accept, rtpctx, pkt, save_rc, stream, relayed>>
    /\ UNCHANGED pliVars

\* The end of stopRecording: janus_mutex_unlock(&session->rec_mutex) and the
\* release of the reference
janus_lua_method_stoprecording_unlock(t) ==
    /\ At(t, "co_rec") /\ co[t] = "stopRecording" /\ specs[t] = <<>>
    /\ rec_mutex' = [rec_mutex EXCEPT ![cos[t]] = NULL]
    /\ decs' = [decs EXCEPT ![t] = <<cos[t]>>]
    /\ pc' = [pc EXCEPT ![t] = "script"]
    /\ co' = [co EXCEPT ![t] = "none"]
    /\ cos' = [cos EXCEPT ![t] = NULL]
    /\ UNCHANGED <<flagVars, lockVars, regVars, sessVars, events, obsVars>>
    /\ UNCHANGED <<cin, sess, rcp, freeing, asev>>
    /\ UNCHANGED <<send, accept, recorder, recorders, rtpctx, specs, pkt, save_rc, stream, relayed>>
    /\ UNCHANGED pliVars

\* configureMedium on a session that was found: the status returned and the
\* flags left.  Nothing is written when either string is NULL or the medium
\* is none of audio, video and data; otherwise accept_* for "in" and send_*
\* for any other direction.
ConfigureMedium(s, medium, direction, enabled) ==
    LET set(f) == [f EXCEPT ![s] = IF enabled THEN @ \cup {medium} ELSE @ \ {medium}]
    IN IF medium = NoString \/ direction = NoString \/ medium \notin Media
       THEN [status |-> 0, send |-> send, accept |-> accept]
       ELSE IF direction = "in"
            THEN [status |-> 0, send |-> send, accept |-> set(accept)]
            ELSE [status |-> 0, send |-> set(send), accept |-> accept]

\* configureMedium on the session it holds
janus_lua_method_configuremedium(t, medium, direction, enabled) ==
    /\ At(t, "co_use") /\ co[t] = "configureMedium"
    /\ LET r == ConfigureMedium(cos[t], medium, direction, enabled)
       IN send' = r.send /\ accept' = r.accept
    /\ decs' = [decs EXCEPT ![t] = <<cos[t]>>]
    /\ pc' = [pc EXCEPT ![t] = "script"]
    /\ co' = [co EXCEPT ![t] = "none"]
    /\ cos' = [cos EXCEPT ![t] = NULL]
    /\ UNCHANGED <<flagVars, lockVars, regVars, sessVars, events, obsVars>>
    /\ UNCHANGED <<cin, sess, rcp, freeing, asev>>
    /\ UNCHANGED <<rec_mutex, recorder, recorders, rtpctx, specs, pkt, save_rc, stream, relayed>>
    /\ UNCHANGED pliVars

----------------------------------------------------------------------------
\* Faults

\* The sessions the next step of thread t reads or writes through a pointer
NextDeref(t) ==
    IF freeing[t] # NULL THEN {freeing[t]}
    ELSE IF decs[t] # <<>> THEN {Head(decs[t])}
    ELSE CASE pc[t] = "lua_wait" ->
                IF lua_mutex = NULL /\ cin[t] \notin {"destroy", "resumeScheduler", "destroySession"}
                THEN {sess[t]} ELSE {}
           [] pc[t] \in {"co_use", "co_wait", "co_list", "co_rec"} -> {cos[t]}
           [] pc[t] \in {"hm_lock", "hm_loop", "relay", "relay_wait", "relay_data", "data_wait", "pli"} -> {sess[t]}
           [] pc[t] = "rtp_wait" -> IF lua_mutex = NULL THEN {sess[t]} ELSE {}
           [] pc[t] \in {"save", "save_data"} -> {sess[t]}
           [] pc[t] = "helper" -> {asev[t].session}
           [] pc[t] = "helper_cb" -> {plugin_handle[asev[t].session]}
           [] pc[t] = "idle" /\ t \in Hosts /\ ~Rejected ->
                {plugin_handle[h] : h \in {x \in Handles : Callable(x)}}
           [] OTHER -> {}

\* A step through a pointer to a freed session, or lua_newthread on a closed
\* state, may end the process
Segfault(t) ==
    /\ ~crashed
    /\ \/ \E s \in NextDeref(t) \ {NULL} : mem[s] = "freed"
       \/ pc[t] = "lua_wait" /\ Ready(t) /\ lua_mutex = NULL /\ luaState # "open"
    /\ crashed' = TRUE
    /\ UNCHANGED <<initialized, stopping, luaState, lua_file, tables>>
    /\ UNCHANGED <<lockVars, regVars, sessVars, thrVars, obsVars, events>>
    /\ UNCHANGED mediaVars
    /\ UNCHANGED pliVars

----------------------------------------------------------------------------
\* The whole plugin on one handle: init, the callbacks, the scheduler, the
\* deferred helper and janus_lua_destroy
GateCallOuts == {"pushEvent", "notifyEvent"}

Init == Start(FALSE, {1}, {}, {})

Next ==
    \/ \E t \in Threads : janus_refcount_decrease(t)
    \/ \E t \in Threads : janus_lua_session_free(t)
    \/ \E t \in Threads : LuaLock(t)
    \/ \E t \in Threads : ScriptReturn(t)
    \/ \E t \in Threads : janus_lua_init_load(t)
    \/ \E t \in Threads : janus_lua_init_tables(t)
    \/ \E t \in Threads : janus_lua_init_finish(t)
    \/ \E t \in Threads : janus_lua_destroy_start(t)
    \/ \E t \in Threads : janus_lua_destroy_join(t)
    \/ \E t \in Threads : janus_lua_destroy_tables(t)
    \/ \E t \in Threads : janus_lua_destroy_unlock(t)
    \/ \E t \in Threads : janus_lua_destroy_close(t)
    \/ \E t \in Threads : janus_lua_scheduler_loop(t)
    \/ \E t \in Threads : janus_lua_scheduler_pop(t)
    \/ \E t \in Threads, h \in Handles : janus_lua_create_session_check(t, h)
    \/ \E t \in Threads : janus_lua_create_session(t)
    \/ \E t \in Threads, h \in Handles : janus_lua_destroy_session_check(t, h)
    \/ \E t \in Threads : janus_lua_destroy_session(t)
    \/ \E t \in Threads : janus_lua_destroy_session_unlock(t)
    \/ \E t \in Threads, h \in Handles, name \in {"handleMessage", "querySession"} :
          janus_lua_handle_message(t, h, name)
    \/ \E t \in Threads, h \in Handles : janus_lua_setup_media(t, h)
    \/ \E t \in Threads, h \in Handles : janus_lua_incoming_rtcp(t, h)
    \/ \E t \in Threads, h \in Handles : janus_lua_hangup_media(t, h)
    \/ \E t \in Threads : janus_lua_hangup_media_lock(t)
    \/ \E t \in Threads : janus_lua_hangup_media_loop(t)
    \/ \E t \in Threads : janus_lua_method_pokescheduler(t)
    \/ \E t \in Threads, name \in GateCallOuts, id \in Ids : janus_lua_method_lookup(t, name, id)
    \/ \E t \in Threads : janus_lua_method_use(t)
    \/ \E t \in Threads : Segfault(t)

Spec == Init /\ [][Next]_vars

----------------------------------------------------------------------------
\* The running plugin (janus_lua_init has returned 0) on one handle, with
\* the call-outs on one session and the deferred helper
DeferCallOuts == {"pushEvent", "pushEventJsep", "closePc", "notifyEvent", "relayRtp"}

InitDefer == Start(TRUE, {1}, {}, {})

NextDefer ==
    \/ \E t \in Threads : janus_refcount_decrease(t)
    \/ \E t \in Threads : janus_lua_session_free(t)
    \/ \E t \in Threads : LuaLock(t)
    \/ \E t \in Threads : ScriptReturn(t)
    \/ \E t \in Threads, h \in Handles : janus_lua_create_session_check(t, h)
    \/ \E t \in Threads : janus_lua_create_session(t)
    \/ \E t \in Threads, h \in Handles : janus_lua_destroy_session_check(t, h)
    \/ \E t \in Threads : janus_lua_destroy_session(t)
    \/ \E t \in Threads : janus_lua_destroy_session_unlock(t)
    \/ \E t \in Threads, h \in Handles : janus_lua_handle_message(t, h, "handleMessage")
    \/ \E t \in Threads, h \in Handles : janus_lua_hangup_media(t, h)
    \/ \E t \in Threads : janus_lua_hangup_media_lock(t)
    \/ \E t \in Threads : janus_lua_hangup_media_loop(t)
    \/ \E t \in Threads : janus_lua_async_event_helper(t)
    \/ \E t \in Threads : janus_lua_async_event_helper_release(t)
    \/ \E t \in Threads, name \in DeferCallOuts, id \in Ids : janus_lua_method_lookup(t, name, id)
    \/ \E t \in Threads : janus_lua_method_use(t)
    \/ \E t \in Threads : janus_lua_method_defer(t)
    \/ \E t \in Threads : Segfault(t)

SpecDefer == InitDefer /\ [][NextDefer]_vars

----------------------------------------------------------------------------
\* The running plugin with two sessions, and addRecipient and
\* removeRecipient: host thread 1 delivers the audio of session 1, host
\* thread 2 the messages, and either of them detaches handles and hangs up
InitRecipients == Start(TRUE, Peers, Peers, Media)

NextRecipients ==
    \/ \E t \in Threads : janus_refcount_decrease(t)
    \/ \E t \in Threads : janus_lua_session_free(t)
    \/ \E t \in Threads : LuaLock(t)
    \/ \E t \in Threads : ScriptReturn(t)
    \/ \E t \in Threads, h \in Handles : janus_lua_destroy_session_check(t, h)
    \/ \E t \in Threads : janus_lua_destroy_session(t)
    \/ \E t \in Threads : janus_lua_destroy_session_unlock(t)
    \/ \E h \in Handles : janus_lua_handle_message(2, h, "handleMessage")
    \/ janus_lua_incoming_rtp_relay(1, 1, FALSE, stream[1])
    \/ janus_lua_incoming_rtp_lock(1)
    \/ janus_lua_incoming_rtp_unlock(1)
    \/ \E t \in Threads, h \in Handles : janus_lua_hangup_media(t, h)
    \/ \E t \in Threads : janus_lua_hangup_media_lock(t)
    \/ \E t \in Threads : janus_lua_hangup_media_loop(t)
    \/ \E t \in Threads, name \in {"addRecipient", "removeRecipient"}, id \in Ids, rid \in Ids :
          janus_lua_method_recipient_lookup(t, name, id, rid)
    \/ \E t \in Threads : janus_lua_method_recipient_wait(t)
    \/ \E t \in Threads : janus_lua_method_recipient_list(t)
    \/ \E t \in Threads : Segfault(t)

SpecRecipients == InitRecipients /\ [][NextRecipients]_vars

----------------------------------------------------------------------------
\* The running plugin with create_session and destroy_session on every
\* handle, and call-outs that hold a session across a destroy
CreateCallOuts == {"notifyEvent", "configureMedium"}

InitCreate == Start(TRUE, Peers, {}, {})

NextCreate ==
    \/ \E t \in Threads : janus_refcount_decrease(t)
    \/ \E t \in Threads : janus_lua_session_free(t)
    \/ \E t \in Threads : LuaLock(t)
    \/ \E t \in Threads : ScriptReturn(t)
    \/ \E t \in Threads, h \in Handles : janus_lua_create_session_check(t, h)
    \/ \E t \in Threads : janus_lua_create_session(t)
    \/ \E t \in Threads, h \in Handles : janus_lua_destroy_session_check(t, h)
    \/ \E t \in Threads : janus_lua_destroy_session(t)
    \/ \E t \in Threads : janus_lua_destroy_session_unlock(t)
    \/ \E t \in Threads, h \in Handles : janus_lua_handle_message(t, h, "handleMessage")
    \/ \E t \in Threads, name \in CreateCallOuts, id \in Ids : janus_lua_method_lookup(t, name, id)
    \/ \E t \in Threads : janus_lua_method_use(t)
    \/ \E t \in Threads : janus_lua_method_configuremedium(t, "audio", "out", TRUE)
    \/ \E t \in Threads : Segfault(t)

SpecCreate == InitCreate /\ [][NextCreate]_vars

----------------------------------------------------------------------------
\* The running plugin with one session, closePc and the deferred helper, the
\* recipient list, the relay and stopRecording, which takes rec_mutex as
\* startRecording does.  Every thread that can
\* take its next program step does so in the end, a lock that keeps coming
\* free is granted to each thread that waits for it, and a script function
\* returns.
LockCallOuts == {"closePc", "configureMedium"}

InitLocks == Start(TRUE, {1}, {1}, Media)

NextLocks ==
    \/ \E t \in Threads : janus_refcount_decrease(t)
    \/ \E t \in Threads : LuaLock(t)
    \/ \E t \in Threads : ScriptReturn(t)
    \/ \E t \in Threads, h \in Handles : janus_lua_handle_message(t, h, "handleMessage")
    \/ \E t \in Threads, h \in Handles : janus_lua_incoming_rtp_relay(t, h, FALSE, stream[h])
    \/ \E t \in Threads : janus_lua_incoming_rtp_lock(t)
    \/ \E t \in Threads : janus_lua_incoming_rtp_unlock(t)
    \/ \E t \in Threads, h \in Handles : janus_lua_hangup_media(t, h)
    \/ \E t \in Threads : janus_lua_hangup_media_lock(t)
    \/ \E t \in Threads : janus_lua_hangup_media_loop(t)
    \/ \E t \in Threads : janus_lua_async_event_helper(t)
    \/ \E t \in Threads : janus_lua_async_event_helper_release(t)
    \/ \E t \in Threads, name \in LockCallOuts, id \in Ids : janus_lua_method_lookup(t, name, id)
    \/ \E t \in Threads : janus_lua_method_defer(t)
    \/ \E t \in Threads : janus_lua_method_configuremedium(t, "audio", "out", TRUE)
    \/ \E t \in Threads, name \in {"addRecipient", "removeRecipient"}, id \in Ids, rid \in Ids :
          janus_lua_method_recipient_lookup(t, name, id, rid)
    \/ \E t \in Threads : janus_lua_method_recipient_wait(t)
    \/ \E t \in Threads : janus_lua_method_recipient_list(t)
    \/ \E t \in Threads, id \in Ids :
          janus_lua_method_recording_lookup(t, "stopRecording", id, <<"audio">>)
    \/ \E t \in Threads : janus_lua_method_stoprecording(t)
    \/ \E t \in Threads : janus_lua_method_stoprecording_unlock(t)

\* The steps a thread takes as soon as it can: none waits for a lock
Proceeds(t) ==
    \/ janus_refcount_decrease(t)
    \/ janus_lua_incoming_rtp_unlock(t)
    \/ t \in Workers /\ \E h \in Handles : janus_lua_hangup_media(t, h)
    \/ janus_lua_hangup_media_loop(t)
    \/ janus_lua_async_event_helper(t)
    \/ janus_lua_async_event_helper_release(t)
    \/ janus_lua_method_defer(t)
    \/ janus_lua_method_configuremedium(t, "audio", "out", TRUE)
    \/ janus_lua_method_recipient_list(t)
    \/ janus_lua_method_stoprecording(t)
    \/ janus_lua_method_stoprecording_unlock(t)

\* The steps in which a thread is granted the lock it waits for
Acquires(t) ==
    \/ LuaLock(t)
    \/ janus_lua_incoming_rtp_lock(t)
    \/ janus_lua_hangup_media_lock(t)
    \/ janus_lua_method_recipient_wait(t)

FairLocks ==
    \A t \in Hosts \cup Workers :
        /\ WF_vars(Proceeds(t))
        /\ SF_vars(Acquires(t))
        /\ SF_vars(ScriptReturn(t))

SpecLocks == InitLocks /\ [][NextLocks]_vars /\ FairLocks

----------------------------------------------------------------------------
\* The whole life of the plugin on one handle: init, the scheduler thread,
\* the call-ins that poke it, and janus_lua_destroy.  The scheduler thread
\* takes its next step when it can, lua_mutex is granted to each thread that
\* waits for it, and a script function returns.
InitSched == Start(FALSE, {1}, {}, {})

NextSched ==
    \/ \E t \in Threads : janus_refcount_decrease(t)
    \/ \E t \in Threads : janus_lua_session_free(t)
    \/ \E t \in Threads : LuaLock(t)
    \/ \E t \in Threads : ScriptReturn(t)
    \/ \E t \in Threads : janus_lua_init_load(t)
    \/ \E t \in Threads : janus_lua_init_tables(t)
    \/ \E t \in Threads : janus_lua_init_finish(t)
    \/ \E t \in Threads : janus_lua_destroy_start(t)
    \/ \E t \in Threads : janus_lua_destroy_join(t)
    \/ \E t \in Threads : janus_lua_destroy_tables(t)
    \/ \E t \in Threads : janus_lua_destroy_unlock(t)
    \/ \E t \in Threads : janus_lua_destroy_close(t)
    \/ \E t \in Threads : janus_lua_scheduler_loop(t)
    \/ \E t \in Threads : janus_lua_scheduler_pop(t)
    \/ \E t \in Threads, h \in Handles : janus_lua_create_session_check(t, h)
    \/ \E t \in Threads : janus_lua_create_session(t)
    \/ \E t \in Threads, h \in Handles : janus_lua_handle_message(t, h, "handleMessage")
    \/ \E t \in Threads : janus_lua_method_pokescheduler(t)
    \/ \E t \in Threads : Segfault(t)

FairSched ==
    /\ WF_vars(janus_lua_scheduler_loop(SchedT) \/ janus_lua_scheduler_pop(SchedT))
    /\ \A t \in Threads : SF_vars(LuaLock(t)) /\ SF_vars(ScriptReturn(t))

SpecSched == InitSched /\ [][NextSched]_vars /\ FairSched

----------------------------------------------------------------------------
\* The end of two sessions that can be recipients of each other: the script
\* adds and removes recipients, and the core detaches each handle and hangs
\* up its media, in either order.  A thread that can take its next step
\* takes it, each lock is granted to the thread that waits for it, and a
\* script function returns.  One thread of the core makes all the calls.
TeardownThreads == {1}

InitTeardown == Start(TRUE, Peers, Peers, Media)

NextTeardown ==
    \/ \E t \in TeardownThreads : janus_refcount_decrease(t)
    \/ \E t \in TeardownThreads : janus_lua_session_free(t)
    \/ \E t \in TeardownThreads : LuaLock(t)
    \/ \E t \in TeardownThreads : ScriptReturn(t)
    \/ \E t \in TeardownThreads, h \in Peers : janus_lua_destroy_session_check(t, h)
    \/ \E t \in TeardownThreads : janus_lua_destroy_session(t)
    \/ \E t \in TeardownThreads : janus_lua_destroy_session_unlock(t)
    \/ \E t \in TeardownThreads, h \in Peers : janus_lua_setup_media(t, h)
    \/ \E t \in TeardownThreads, h \in Peers : janus_lua_hangup_media(t, h)
    \/ \E t \in TeardownThreads, h \in Peers : janus_lua_hangup_media_rejected(t, h)
    \/ \E t \in TeardownThreads : janus_lua_hangup_media_lock(t)
    \/ \E t \in TeardownThreads : janus_lua_hangup_media_loop(t)
    \/ \E t \in TeardownThreads, name \in {"addRecipient", "removeRecipient"}, id \in Ids, rid \in Ids :
          janus_lua_method_recipient_lookup(t, name, id, rid)
    \/ \E t \in TeardownThreads : janus_lua_method_recipient_list(t)

FairTeardown ==
    \A t \in TeardownThreads :
        /\ WF_vars(\/ janus_refcount_decrease(t)
                   \/ janus_lua_session_free(t)
                   \/ janus_lua_destroy_session(t)
                   \/ janus_lua_destroy_session_unlock(t)
                   \/ janus_lua_hangup_media_loop(t)
                   \/ janus_lua_method_recipient_list(t))
        /\ SF_vars(LuaLock(t) \/ janus_lua_hangup_media_lock(t))
        /\ SF_vars(ScriptReturn(t))

SpecTeardown == InitTeardown /\ [][NextTeardown]_vars /\ FairTeardown

----------------------------------------------------------------------------
\* The whole life of the plugin on one handle, with the answers of
\* handleMessage: the status, in units of 1/StatusUnit, and the response, a
\* well-formed text, a malformed one, or no string
Statuses == (-MaxStatus)..MaxStatus
Responses == {"{}", "{", NoString}

InitMessage == Start(FALSE, {1}, {}, {})

NextMessage ==
    \/ \E t \in Threads : janus_refcount_decrease(t)
    \/ \E t \in Threads : janus_lua_session_free(t)
    \/ \E t \in Threads : LuaLock(t)
    \/ \E t \in Threads : cin[t] # "handleMessage" /\ ScriptReturn(t)
    \/ \E t \in Threads : janus_lua_init_load(t)
    \/ \E t \in Threads : janus_lua_init_tables(t)
    \/ \E t \in Threads : janus_lua_init_finish(t)
    \/ \E t \in Threads : janus_lua_destroy_start(t)
    \/ \E t \in Threads : janus_lua_destroy_join(t)
    \/ \E t \in Threads : janus_lua_destroy_tables(t)
    \/ \E t \in Threads : janus_lua_destroy_unlock(t)
    \/ \E t \in Threads : janus_lua_destroy_close(t)
    \/ \E t \in Threads : janus_lua_scheduler_loop(t)
    \/ \E t \in Threads : janus_lua_scheduler_pop(t)
    \/ \E t \in Threads, h \in Handles : janus_lua_create_session_check(t, h)
    \/ \E t \in Threads : janus_lua_create_session(t)
    \/ \E t \in Threads, h \in Handles : janus_lua_handle_message(t, h, "handleMessage")
    \/ \E t \in Threads, h \in Handles : janus_lua_handle_message_rejected(t, h)
    \/ \E t \in Threads, status \in Statuses, response \in Responses :
          janus_lua_handle_message_return(t, status, response)
    \/ \E t \in Threads : janus_lua_method_pokescheduler(t)
    \/ \E t \in Threads : Segfault(t)

SpecMessage == InitMessage /\ [][NextMessage]_vars

----------------------------------------------------------------------------
\* The running plugin with one session that is created in the run, and on it
\* startRecording and stopRecording, configureMedium for outgoing audio, and
\* a stream of audio packets from the peer.

\* The media named in the calls of startRecording and of stopRecording
StartCalls == {<<"audio">>, <<"audio", "audio">>, <<"video", "audio">>, <<"data", "video", "audio">>}
StopCalls == {<<"audio">>, <<"video", "data">>, <<"audio", "video", "data">>}

\* The packets that can follow packet p of a peer's stream: the next audio
\* frame, while the stream is short of MaxPackets
Following(p) ==
    IF p.n < MaxPackets
    THEN {[n |-> p.n + 1, timestamp |-> Add32(p.timestamp, Word(0, 960)),
           seq_number |-> Add16(p.seq_number, 1)]}
    ELSE {}

InitRecording == Start(TRUE, {1}, {}, {})

NextRecording ==
    \/ \E t \in Threads : janus_refcount_decrease(t)
    \/ \E t \in Threads : LuaLock(t)
    \/ \E t \in Threads : ScriptReturn(t)
    \/ \E t \in Threads, h \in Handles : janus_lua_create_session_check(t, h)
    \/ \E t \in Threads : janus_lua_create_session(t)
    \/ \E t \in Threads, h \in Handles : janus_lua_handle_message(t, h, "handleMessage")
    \/ \E t \in Threads, id \in Ids : janus_lua_method_lookup(t, "configureMedium", id)
    \/ \E t \in Threads : janus_lua_method_configuremedium(t, "audio", "out", TRUE)
    \/ \E t \in Threads, id \in Ids, q \in StartCalls :
          janus_lua_method_recording_lookup(t, "startRecording", id, q)
    \/ \E t \in Threads : janus_lua_method_startrecording(t)
    \/ \E t \in Threads, id \in Ids, q \in StopCalls :
          janus_lua_method_recording_lookup(t, "stopRecording", id, q)
    \/ \E t \in Threads : janus_lua_method_stoprecording(t)
    \/ \E t \in Threads : janus_lua_method_stoprecording_unlock(t)
    \/ \E t \in Threads, h \in Handles : \E p \in Following(stream[h]) :
          janus_lua_incoming_rtp_relay(t, h, FALSE, p)
    \/ \E t \in Threads : janus_lua_incoming_rtp_lock(t)
    \/ \E t \in Threads : janus_lua_incoming_rtp_unlock(t)

SpecRecording == InitRecording /\ [][NextRecording]_vars

----------------------------------------------------------------------------
\* The running plugin with three sessions A = 1, B = 2 and C = 3: the peers
\* of A and C send video, the script makes B a recipient of A and of C and C
\* a recipient of A, and takes them off again, and B and C get their
\* PeerConnection.  One host thread makes all the calls, so that the packets
\* reach a recipient one after the other.
Sources == {1, 3}
Feeds == {<<1, 2>>, <<1, 3>>, <<3, 2>>}
RelayThreads == {1}

\* The first video packet of a peer: A's stream is about to wrap around in
\* both fields, C's starts from values that lie before A's
FirstVideo(s) ==
    IF s = 1 THEN [n |-> 1, timestamp |-> Word(65535, 60000), seq_number |-> 65534]
    ELSE [n |-> 1, timestamp |-> Word(40000, 0), seq_number |-> 40000]

\* The video packets that can follow packet p of the stream of s
VideoFollowing(s, p) ==
    IF p.n = 0 THEN {FirstVideo(s)}
    ELSE IF p.n < MaxPackets
    THEN {[n |-> p.n + 1, timestamp |-> Add32(p.timestamp, Word(0, 3000)),
           seq_number |-> Add16(p.seq_number, 1)]}
    ELSE {}

InitRelay == Start(TRUE, Handles, Handles, Media)

NextRelay ==
    \/ \E t \in RelayThreads : janus_refcount_decrease(t)
    \/ \E t \in RelayThreads : LuaLock(t)
    \/ \E t \in RelayThreads : ScriptReturn(t)
    \/ \E t \in RelayThreads, h \in Handles \ {1} : janus_lua_setup_media(t, h)
    \/ \E t \in RelayThreads : janus_lua_handle_message(t, 1, "handleMessage")
    \/ \E t \in RelayThreads, name \in {"addRecipient", "removeRecipient"}, f \in Feeds :
          janus_lua_method_recipient_lookup(t, name, f[1], f[2])
    \/ \E t \in RelayThreads : janus_lua_method_recipient_list(t)
    \/ \E t \in RelayThreads, h \in Sources : \E p \in VideoFollowing(h, stream[h]) :
          janus_lua_incoming_rtp_relay(t, h, TRUE, p)
    \/ \E t \in RelayThreads : janus_lua_incoming_rtp_unlock(t)

SpecRelay == InitRelay /\ [][NextRelay]_vars

----------------------------------------------------------------------------
\* The running plugin with three new sessions, none of whose flags is set:
\* the script sets and clears the video and data flags of each with
\* configureMedium and puts sessions 2 and 3 on the recipient list of
\* session 1, sessions 2 and 3 get their PeerConnection, and the peer of
\* session 1 sends video and data.  One host thread makes all the calls.
FanoutMedia == {"video", "data"}
FanoutFeeds == {<<1, 2>>, <<1, 3>>}

InitFanout == Start(TRUE, Handles, Handles, {})

NextFanout ==
    \/ \E t \in RelayThreads : janus_refcount_decrease(t)
    \/ \E t \in RelayThreads : LuaLock(t)
    \/ \E t \in RelayThreads : ScriptReturn(t)
    \/ \E t \in RelayThreads, h \in Handles \ {1} : janus_lua_setup_media(t, h)
    \/ \E t \in RelayThreads : janus_lua_handle_message(t, 1, "handleMessage")
    \/ \E t \in RelayThreads, id \in Handles : janus_lua_method_lookup(t, "configureMedium", id)
    \/ \E t \in RelayThreads, m \in FanoutMedia, enabled \in BOOLEAN :
          janus_lua_method_configuremedium(t, m, IF cos[t] = 1 THEN "out" ELSE "in", enabled)
    \/ \E t \in RelayThreads, name \in {"addRecipient", "removeRecipient"}, f \in FanoutFeeds :
          janus_lua_method_recipient_lookup(t, name, f[1], f[2])
    \/ \E t \in RelayThreads : janus_lua_method_recipient_list(t)
    \/ \E t \in RelayThreads : janus_lua_incoming_rtp_relay(t, 1, TRUE, stream[1])
    \/ \E t \in RelayThreads : janus_lua_incoming_rtp_unlock(t)
    \/ \E t \in RelayThreads : janus_lua_incoming_data_relay(t, 1)
    \/ \E t \in RelayThreads : janus_lua_incoming_data_unlock(t)

SpecFanout == InitFanout /\ [][NextFanout]_vars

----------------------------------------------------------------------------
\* The running plugin with one session that sends video: its media thread
\* (host thread 1) delivers the video packets, another host thread
\* delivers setup_media and the messages whose handler calls setPliFreq,
\* with one second or a number that is one second as a guint16, and
\* sendPli, and the clock moves.
PliFreqs == {1, Half + 1}

InitPli == Start(TRUE, {1}, {1}, {"video"})

NextPli ==
    \/ \E t \in Threads : janus_refcount_decrease(t)
    \/ \E t \in Threads : LuaLock(t)
    \/ \E t \in Threads : ScriptReturn(t)
    \/ \E t \in Hosts \ {1} : ~started[1] /\ janus_lua_setup_media(t, 1)
    \/ \E t \in Hosts \ {1} : janus_lua_handle_message(t, 1, "handleMessage")
    \/ \E t \in Threads, name \in {"setPliFreq", "sendPli"} : janus_lua_method_lookup(t, name, 1)
    \/ \E t \in Threads, freq \in PliFreqs : janus_lua_method_setplifreq(t, freq)
    \/ \E t \in Threads : janus_lua_method_sendpli(t)
    \/ janus_lua_incoming_rtp_relay(1, 1, TRUE, stream[1])
    \/ janus_lua_incoming_rtp_unlock(1)
    \/ janus_lua_incoming_rtp_pli(1)
    \/ Tick

SpecPli == InitPli /\ [][NextPli]_vars

----------------------------------------------------------------------------
\* The running plugin with two sessions whose peers send audio, video, data
\* and RTCP, under each script that defines the required functions and any
\* of incomingRtp, incomingRtcp and incomingData; the host threads deliver
\* the packets and the messages.  A script function may take any time to
\* return, or never return: only the steps of the native media path are
\* fair.
OptionalFunctions == {"incomingRtp", "incomingRtcp", "incomingData"}
IncomingScripts ==
    {[item |-> "value", loads |-> TRUE, functions |-> lua_functions \cup opt] :
        opt \in SUBSET OptionalFunctions}
Rembs == {0, 1}

InitIncoming == \E script \in IncomingScripts : StartWith(script, TRUE, Peers, Peers, Media)

NextIncoming ==
    \/ \E t \in Hosts : LuaLock(t)
    \/ \E t \in Hosts : ScriptReturn(t)
    \/ \E t \in Hosts, h \in Peers : janus_lua_handle_message(t, h, "handleMessage")
    \/ \E t \in Hosts, h \in Peers : janus_lua_incoming_rtp(t, h)
    \/ \E t \in Hosts : janus_lua_incoming_rtp_call(t)
    \/ \E t \in Hosts, h \in Peers : janus_lua_incoming_rtcp(t, h)
    \/ \E t \in Hosts, h \in Peers : janus_lua_incoming_data(t, h)
    \/ \E t \in Hosts, h \in Peers, bitrate \in Rembs : janus_lua_incoming_rtcp_remb(t, h, bitrate)
    \/ \E t \in Hosts, h \in Peers, video \in BOOLEAN :
          janus_lua_incoming_rtp_relay(t, h, video, stream[h])
    \/ \E t \in Hosts : janus_lua_incoming_rtp_lock(t)
    \/ \E t \in Hosts : janus_lua_incoming_rtp_unlock(t)
    \/ \E t \in Hosts, h \in Peers : janus_lua_incoming_data_relay(t, h)
    \/ \E t \in Hosts : janus_lua_incoming_data_lock(t)
    \/ \E t \in Hosts : janus_lua_incoming_data_unlock(t)

FairIncoming ==
    \A t \in Hosts :
        /\ SF_vars(janus_lua_incoming_rtp_lock(t))
        /\ SF_vars(janus_lua_incoming_data_lock(t))
        /\ WF_vars(janus_lua_incoming_rtp_unlock(t))
        /\ WF_vars(janus_lua_incoming_data_unlock(t))

SpecIncoming == InitIncoming /\ [][NextIncoming]_vars /\ FairIncoming

----------------------------------------------------------------------------
\* janus_lua_init under each configuration: the "script" item names a
\* script, is there without a value, or is not there; what
\* luaL_dofile loads, the script or the standard input, does not load, is
\* complete or lacks one required function.  The core then creates
\* sessions and the script pokes the scheduler.
ScriptItems == {"value", "empty", "absent"}
ConfigScripts == {[script EXCEPT !.item = item] : script \in Scripts, item \in ScriptItems}

InitConfig == Start(FALSE, {1}, {}, {})

NextConfig ==
    \/ \E script \in ConfigScripts : janus_lua_init_script(MainT, script)
    \/ \E t \in Threads : janus_lua_init_tables(t)
    \/ \E t \in Threads : janus_lua_init_finish(t)
    \/ \E t \in Threads : LuaLock(t)
    \/ \E t \in Threads : ScriptReturn(t)
    \/ \E t \in Threads : janus_lua_scheduler_loop(t)
    \/ \E t \in Threads : janus_lua_scheduler_pop(t)
    \/ \E t \in Threads, h \in Handles : janus_lua_create_session_check(t, h)
    \/ \E t \in Threads : janus_lua_create_session(t)
    \/ \E t \in Threads, h \in Handles : janus_lua_handle_message(t, h, "handleMessage")
    \/ \E t \in Threads : janus_lua_method_pokescheduler(t)

SpecConfig == InitConfig /\ [][NextConfig]_vars

----------------------------------------------------------------------------
\* The running plugin with one session that sends audio and data: host
\* thread 1 delivers the packets, taking the recorder from the session and
\* saving the frame as two steps, and host thread 2 the messages whose
\* handler starts and stops the recordings.
FrameCalls == {<<"audio">>, <<"data">>}

InitFrames == Start(TRUE, {1}, {1}, {"audio", "data"})

NextFrames ==
    \/ \E t \in Hosts : janus_refcount_decrease(t)
    \/ \E t \in Hosts : LuaLock(t)
    \/ \E t \in Hosts : ScriptReturn(t)
    \/ janus_lua_handle_message(2, 1, "handleMessage")
    \/ \E q \in FrameCalls : janus_lua_method_recording_lookup(2, "startRecording", 1, q)
    \/ janus_lua_method_startrecording(2)
    \/ \E q \in FrameCalls : janus_lua_method_recording_lookup(2, "stopRecording", 1, q)
    \/ janus_lua_method_stoprecording(2)
    \/ janus_lua_method_stoprecording_unlock(2)
    \/ janus_lua_incoming_rtp_frame(1, 1, FALSE, stream[1])
    \/ janus_lua_incoming_data_frame(1, 1)
    \/ janus_lua_incoming_save(1)
    \/ janus_lua_incoming_rtp_lock(1)
    \/ janus_lua_incoming_rtp_unlock(1)
    \/ janus_lua_incoming_data_lock(1)
    \/ janus_lua_incoming_data_unlock(1)

SpecFrames == InitFrames /\ [][NextFrames]_vars

----------------------------------------------------------------------------
\* Two sessions that send and accept every medium: host thread 1 delivers
\* the audio and the data of session 1, host thread 2 the messages of
\* session 1, whose handler adds and removes session 2 as a recipient, and
\* sets up the media of session 2 and detaches its handle.
InitDetach == Start(TRUE, {1, 2}, {1, 2}, Media)

NextDetach ==
    \/ \E t \in Hosts : janus_refcount_decrease(t)
    \/ \E t \in Hosts : janus_lua_session_free(t)
    \/ \E t \in Hosts : LuaLock(t)
    \/ \E t \in Hosts : ScriptReturn(t)
    \/ janus_lua_setup_media(2, 2)
    \/ janus_lua_destroy_session_check(2, 2)
    \/ janus_lua_destroy_session(2)
    \/ janus_lua_destroy_session_unlock(2)
    \/ janus_lua_handle_message(2, 1, "handleMessage")
    \/ \E name \in {"addRecipient", "removeRecipient"} :
          janus_lua_method_recipient_lookup(2, name, 1, 2)
    \/ janus_lua_method_recipient_list(2)
    \/ janus_lua_incoming_rtp_relay(1, 1, FALSE, stream[1])
    \/ janus_lua_incoming_rtp_lock(1)
    \/ janus_lua_incoming_rtp_unlock(1)
    \/ janus_lua_incoming_data_relay(1, 1)
    \/ janus_lua_incoming_data_lock(1)
    \/ janus_lua_incoming_data_unlock(1)

SpecDetach == InitDetach /\ [][NextDetach]_vars

----------------------------------------------------------------------------
\* Properties

\* A thread is inside the script engine: in a call-in, or in a call-out made
\* from it
InEngine(t) == pc[t] \in {"script", "co_use", "co_wait", "co_list", "co_rec"}

\* Thread t starts on a session it has just got from the id table.  Only the
\* call-outs take this step.
Obtains(t) == pc[t] = "script" /\ pc'[t] \in {"co_use", "co_wait", "co_list", "co_rec"}

\* C1: at every moment at most one thread is executing a script call-in,
\* whichever of the host callbacks, the scheduler's resumeScheduler and the
\* shutdown destroy() are in progress.
C1_OneThreadInEngine ==
    \A t1, t2 \in Threads : (InEngine(t1) /\ InEngine(t2)) => t1 = t2

\* A host thread is inside the script while the scheduler, the other host
\* thread and janus_lua_destroy all wait at the gateway.
C1_Contended ==
    /\ \E t \in Hosts : InEngine(t)
    /\ \E t \in Hosts : pc[t] = "lua_wait"
    /\ pc[SchedT] = "lua_wait"
    /\ stopping

\* C2: whenever a session is obtained from the registry by id, it has not
\* been freed and its reference count is at least 1 at that moment.
C2_LookupGivesHeldSession ==
    [][\A t \in Threads : Obtains(t) =>
          /\ mem[cos'[t]] = "live" /\ ref[cos'[t]] >= 1
          /\ rcp'[t] # NULL => (mem[rcp'[t]] = "live" /\ ref[rcp'[t]] >= 1)]_vars

\* C3: from the return of create_session until destroy_session is called,
\* the handle and the id lead to the same session; after destroy_session has
\* returned neither the handle table nor the id table yields the session.
C3_LookupsAgreeThenEmpty ==
    \A h \in Handles :
        /\ hstate[h] = "attached" => (sessions[h] = h /\ ids[sid[h]] = h)
        /\ hstate[h] = "detached" => (sessions[h] = NULL /\ \A i \in Ids : ids[i] # h)

\* C4: no two sessions present in the id registry have the same id, each is
\* found under its own id, and no session is assigned id 0.
C4_UniqueNonZeroIds ==
    /\ \A s1, s2 \in Handles :
          (mem[s1] = "live" /\ mem[s2] = "live" /\ s1 # s2) => sid[s1] # sid[s2]
    /\ \A s \in Handles : mem[s] # "none" => sid[s] # 0
    /\ \A i \in Ids : ids[i] # NULL => sid[ids[i]] = i

\* Both host threads are inside create_session at once, each with its
\* session entered in the id table.
C4_ConcurrentCreates ==
    /\ \A t \in Hosts : pc[t] \in {"lua_wait", "script"} /\ cin[t] = "createSession"
    /\ Cardinality({i \in Ids : ids[i] # NULL}) = Cardinality(Hosts)

\* C5: a call-out that resolves a session id (notifyEvent is not of these)
\* holds a counted reference for as long as it uses the session, so the
\* session is not freed while the call-out is using it.
C5_CallOutSessionNotFreed ==
    \A t \in Threads :
        (pc[t] \in {"co_use", "co_wait", "co_list"} /\ co[t] # "notifyEvent")
            => mem[cos[t]] = "live"

\* C6: a call-out that requires a session (all but pokeScheduler and
\* notifyEvent) goes no further than the lookup when the id belongs to a
\* session on which destroy_session was already called.
C6_DestroyedIsRejected ==
    [][\A t \in Threads : (Obtains(t) /\ co'[t] # "notifyEvent") =>
          /\ ~destroyed[cos'[t]]
          /\ rcp'[t] # NULL => ~destroyed[rcp'[t]]]_vars

\* C7: a session is freed only when its reference count is zero: not while a
\* recipient list holds it, its own list is non-empty, or a deferred worker
\* or a call-out in progress holds a reference to it.
C7_FreedOnlyUnreferenced ==
    [][\A s \in Handles : (mem[s] = "live" /\ mem'[s] = "freed") =>
          /\ ref[s] = 0
          /\ recipients[s] = <<>>
          /\ \A o \in Handles : s \notin Range(recipients[o])
          /\ \A w \in Workers : asev[w].session # s
          /\ \A t \in Threads : ~(InEngine(t) /\ co[t] # "none" /\ TakesRef(co[t]) /\ cos[t] = s)]_vars

\* C8: for live sessions a and b, in any state, addRecipient(a, b) followed
\* by removeRecipient(a, b) restores the recipient lists and the reference
\* counts if b was not a recipient of a; one addRecipient adds one entry and
\* one reference on each side, and repeating it adds nothing more.
C8_AddRemoveRoundTrip ==
    \A a, b \in Handles : (mem[a] = "live" /\ mem[b] = "live") =>
        LET once == AddRecipient(Rel, a, b)
            twice == AddRecipient(once, a, b)
        IN /\ b \notin Range(recipients[a]) =>
                /\ RemoveRecipient(once, a, b) = Rel
                /\ once.recipients = [recipients EXCEPT ![a] = Append(@, b)]
                /\ once.ref = Inc(Inc(ref, a), b)
           /\ twice = once
           /\ AddRecipient(twice, a, b) = once

\* addRecipient(a, b) has the list locked and finds b in it already.
C8_RepeatedAdd ==
    \E t \in Threads :
        /\ pc[t] = "co_list" /\ co[t] = "addRecipient"
        /\ cos[t] # rcp[t]
        /\ rcp[t] \in Range(recipients[cos[t]])

\* C9: no session appears more than once in a recipient list, and
\* removeRecipient of a pair that is not in the list returns 0 and changes
\* neither a list nor a reference count.
C9_NoDuplicateRecipients ==
    /\ \A s \in Handles : Cardinality(Range(recipients[s])) = Len(recipients[s])
    /\ \A s, r \in Handles :
          (mem[s] = "live" /\ mem[r] = "live" /\ r \notin Range(recipients[s])) =>
              /\ RemoveRecipient(Rel, s, r) = Rel
              /\ RecipientStatus("removeRecipient", s, r) = 0

\* removeRecipient(s, r) has the list locked and r is not in it, while the
\* list holds another recipient.
C9_RemoveAbsent ==
    \E t \in Threads :
        /\ pc[t] = "co_list" /\ co[t] = "removeRecipient"
        /\ recipients[cos[t]] # <<>>
        /\ rcp[t] \notin Range(recipients[cos[t]])

WaitsFor(t) ==
    CASE pc[t] \in {"lua_wait", "destroy_close"} -> lua_mutex
      [] pc[t] \in {"cs_reg", "ds_reg", "destroy_tables"} -> sessions_mutex
      [] pc[t] = "co_wait" -> recipients_mutex[cos[t]]
      [] pc[t] \in {"hm_lock", "relay_wait", "data_wait"} -> recipients_mutex[sess[t]]
      [] OTHER -> NULL

\* The threads that thread t waits for, directly or through n other threads
RECURSIVE Blockers(_, _)
Blockers(t, n) ==
    IF t = NULL \/ n = 0 THEN {}
    ELSE {WaitsFor(t)} \cup Blockers(WaitsFor(t), n - 1)

\* The rec_mutex of a session is owned only by the thread that is inside
\* startRecording or stopRecording on it
RecLockHeldInCall ==
    \A s \in Handles : rec_mutex[s] # NULL =>
        (pc[rec_mutex[s]] = "co_rec" /\ cos[rec_mutex[s]] = s)

\* C11: no thread waits for a lock (lua_mutex, sessions_mutex, a session's
\* recipients_mutex or rec_mutex) in a cycle of threads that wait for each
\* other; when closePc was called inside a call-in and the core calls
\* hangup_media on the helper thread, that thread gets to the hangupMedia
\* call-in, and every call-in of a host thread returns.
C11_NoDeadlock ==
    /\ [](\A t \in Threads : t \notin Blockers(t, MainT))
    /\ []RecLockHeldInCall
    /\ \A w \in Workers : (pc[w] = "hm_lock") ~> (pc[w] = "script" /\ cin[w] = "hangupMedia")
    /\ \A t \in Hosts : InEngine(t) ~> (pc[t] = "idle")

\* The helper waits for lua_mutex to tell the script of the hangup, while the
\* call-in that called closePc is inside addRecipient and waits, with
\* lua_mutex and sessions_mutex, for a recipients list that a relay has locked.
C11_HangupWaitsForScript ==
    /\ \E w \in Workers : pc[w] = "lua_wait" /\ cin[w] = "hangupMedia"
    /\ \E t \in Hosts : pc[t] = "co_wait" /\ lua_mutex = t /\ sessions_mutex = t

C13_PokeIsServed ==
    (initialized /\ ~stopping /\ pc[MainT] = "running" /\ janus_lua_event_resume \in Range(events))
        => pc[SchedT] # "done"

\* C14: once janus_lua_destroy is past its destroy() call-in, no thread is
\* inside the script, a host thread that passed the stopping/initialized
\* test before the shutdown began included.
C14_NoCallInAfterDestroy ==
    pc[MainT] \in {"destroy_tables", "destroy_unlock", "destroy_close", "stopped"}
        => \A t \in Threads : ~InEngine(t)

\* The media a session is recording, and the recorders it holds
Recorded(s) == {m \in Media : recorder[s][m] # NULL}
Owned(s) == {recorder[s][m] : m \in Recorded(s)}

\* C15: a startRecording that names a medium the session already records
\* returns a negative status however the creation of its recorders goes, and
\* leaves the session's three recorder fields as they were, each recorder
\* they point to open and untouched.
C15_DuplicateStartRejected ==
    [][\A t \in Threads :
          (janus_lua_method_startrecording(t) /\ Range(specs[t]) \cap Recorded(cos[t]) # {})
              => /\ \A ok \in Outcomes(specs[t]) :
                       StartRecording(Rec(cos[t]), specs[t], ok).status < 0
                 /\ recorder'[cos[t]] = recorder[cos[t]]
                 /\ \A rc \in Owned(cos[t]) :
                       recorders[rc].state = "open" /\ recorders'[rc] = recorders[rc]]_vars

\* A second startRecording for audio has been refused: the session still has
\* its audio recorder, open and with a frame in it, next to a recorder that
\* only the refused call can have created.
C15_SecondStartRefused ==
    \E s \in Handles :
        /\ recorder[s]["audio"] # NULL
        /\ recorders[recorder[s]["audio"]].state = "open"
        /\ recorders[recorder[s]["audio"]].frames > 0
        /\ \E rc \in RecIds \ Owned(s) : recorders[rc].state # "none"

\* C16: whenever startRecording returns a negative status, the session's
\* recorder fields are as before the call and no recorder that the call
\* created is left open.
C16_StartRecordingAllOrNothing ==
    \A t \in Threads :
        (pc[t] = "co_rec" /\ co[t] = "startRecording")
            => \A ok \in Outcomes(specs[t]) :
                  LET r == StartRecording(Rec(cos[t]), specs[t], ok)
                  IN r.status < 0
                        => /\ r.fields = recorder[cos[t]]
                           /\ \A rc \in RecIds :
                                 recorders[rc].state = "none" => r.recorders[rc].state # "open"

\* C17: a stopRecording returns 0 and, over the media it still has to go
\* through, leaves each of them without recorder, the recorder it had
\* closed, and leaves every other field and every other recorder as it is;
\* so a medium that is not recorded changes nothing.
C17_StopRecordingEffect ==
    \A t \in Threads :
        (pc[t] = "co_rec" /\ co[t] = "stopRecording")
            => LET s == cos[t]
                   named == Range(specs[t])
                   r == StopRecording(Rec(s), specs[t])
               IN /\ r.status = 0
                  /\ \A m \in named :
                        /\ r.fields[m] = NULL
                        /\ recorder[s][m] # NULL => r.recorders[recorder[s][m]].state = "closed"
                  /\ \A m \in Media \ named : r.fields[m] = recorder[s][m]
                  /\ \A rc \in RecIds \ {recorder[s][m] : m \in named} :
                        r.recorders[rc] = recorders[rc]

\* A stopRecording for audio is through its loop on a session that records
\* audio and video: the audio recorder, with a frame saved, is closed and
\* the video recorder is still there.
C17_AudioStoppedVideoKept ==
    \E t \in Threads :
        /\ pc[t] = "co_rec" /\ co[t] = "stopRecording" /\ specs[t] = <<>>
        /\ recorder[cos[t]]["audio"] = NULL
        /\ recorder[cos[t]]["video"] # NULL
        /\ recorders[recorder[cos[t]]["video"]].state = "open"
        /\ \E rc \in RecIds : recorders[rc].state = "closed" /\ recorders[rc].frames > 0

\* C18: between a startRecording for audio that returned 0 and the
\* stopRecording that removes the recorder, every audio packet that comes in
\* for the session adds a frame to the session's open audio recorder; and a
\* recorder that is not open takes no frame any more.
C18_AudioPacketsRecorded ==
    [][/\ \A s \in Handles :
            LET rc == recorder[s]["audio"]
            IN (stream'[s].n = stream[s].n + 1 /\ rc # NULL /\ recorders[rc].state = "open")
                  => recorders'[rc].frames = recorders[rc].frames + 1
       /\ \A rc \in RecIds :
            recorders[rc].state = "closed" => recorders'[rc].frames = recorders[rc].frames]_vars

\* b is not before a, for timestamps modulo 2^32 and for sequence numbers
\* modulo 2^16: the way from a up to b is less than half the circle
NotBefore32(a, b) == Sub32(b, a).hi < Half \div 2
NotBefore16(a, b) == Sub16(b, a) < Half \div 2

\* C19: the video packets given to gateway->relay_rtp for a recipient, fed
\* by A and then by C or the other way round, never go back in timestamp or
\* in sequence number, wrap-around taken into account.
C19_MonotonicAtRecipient ==
    [][\A r \in Handles :
          (relayed[r]["video"] # NoHeader /\ relayed'[r]["video"] # relayed[r]["video"])
              => /\ NotBefore32(ntohl(relayed[r]["video"].timestamp),
                                ntohl(relayed'[r]["video"].timestamp))
                 /\ NotBefore16(ntohs(relayed[r]["video"].seq_number),
                                ntohs(relayed'[r]["video"].seq_number))]_vars

\* B has had all of A's packets, across the wrap-around of A's timestamp
\* and sequence number, and after them a packet of C.
C19_SwitchedFromAToC ==
    /\ rtpctx[2]["video"].last_ssrc = Ssrc(3, TRUE)
    /\ rtpctx[2]["video"].base_seq_prev = MaxPackets
    /\ ntohl(relayed[2]["video"].ssrc) = Ssrc(3, TRUE)
    /\ stream[1].n = MaxPackets

\* C20: when the packet a thread holds has gone through the whole recipient
\* list, its timestamp and sequence number are those it came with, and each
\* recipient that took it had its header rewritten from those values.
C20_PacketRestored ==
    \A t \in Threads :
        pc[t] = "relay"
            => LET st == Relay(t)
               IN /\ st.packet.data.timestamp = pkt[t].data.timestamp
                  /\ st.packet.data.seq_number = pkt[t].data.seq_number
                  /\ ntohl(st.packet.data.timestamp) = stream[sess[t]].timestamp
                  /\ ntohs(st.packet.data.seq_number) = stream[sess[t]].seq_number
                  /\ \A i \in 1..Len(st.inputs) :
                        /\ st.inputs[i].timestamp = pkt[t].data.timestamp
                        /\ st.inputs[i].seq_number = pkt[t].data.seq_number

\* A packet of A is about to go to its two recipients, and both take it.
C20_BothRecipientsRewrite ==
    \E t \in Threads :
        /\ pc[t] = "relay" /\ Len(Relay(t).inputs) = 2

\* The recipients of session s, in list order, that are started and accept
\* medium m
Takers(s, m) == SelectSeq(recipients[s], LAMBDA r : started[r] /\ m \in accept[r])

\* C21: a thread is about to relay a video or data packet of session s only
\* if s sends that medium, and the handles the packet is then given to are
\* those of the sessions on the recipient list of s that are started and
\* accept the medium: each such list entry once, and no other session.
C21_ForwardedToTakers ==
    \A t \in Threads :
        /\ pc[t] = "relay"
              => LET m == IF pkt[t].is_video THEN "video" ELSE "audio"
                 IN m \in send[sess[t]] /\ Relay(t).to = Takers(sess[t], m)
        /\ pc[t] = "relay_data"
              => "data" \in send[sess[t]] /\ RelayData(t) = Takers(sess[t], "data")

\* Data of session 1 is about to be relayed with both other sessions on the
\* list and started, one accepting data and the other not.
C21_OneOfTwoTakes ==
    \E t \in Threads :
        /\ pc[t] = "relay_data" /\ Len(recipients[sess[t]]) = 2
        /\ \A r \in Range(recipients[sess[t]]) : started[r]
        /\ Len(RelayData(t)) = 1

\* C22: when a keyframe request goes out on incoming video, the session's
\* interval F is not 0 and the clock reading the request was decided on is
\* at least F seconds after the last request, automatic or by sendPli, and
\* after setup_media.
C22_PliPaced ==
    [][\A t \in Threads :
          (pc[t] = "pli" /\ pc'[t] # "pli")
              => /\ pli_freq[sess[t]] > 0
                 /\ pli_now[t] - pli_event[sess[t]] >= pli_freq[sess[t]] * G_USEC_PER_SEC]_vars

\* C23: a closePc or a pushEvent with a jsep that is about to launch its
\* worker returns 0 when the worker is launched and a negative number when
\* the launch fails.
C23_DeferStatus ==
    \A t \in Threads :
        (pc[t] = "co_use" /\ co[t] \in {"pushEventJsep", "closePc"})
            => \A w \in Launches :
                  IF w # NULL THEN DeferStatus(w) = 0 ELSE DeferStatus(w) < 0

\* The strings a script can pass as the medium and as the direction of
\* configureMedium: the allowed ones, another string, and no string at all
MediumArgs == Media \cup {"screen", NoString}
DirectionArgs == {"in", "out", "both", NoString}

\* C24: configureMedium called on a live session with a medium or a direction
\* that is not one of the allowed strings returns a negative status and leaves
\* the send and accept flags of every session as they were.
C24_WrongArgumentRejected ==
    \A t \in Threads :
        (pc[t] = "co_use" /\ co[t] = "configureMedium")
            => \A medium \in MediumArgs, direction \in DirectionArgs, enabled \in BOOLEAN :
                  (medium \notin Media \/ direction \notin {"in", "out"})
                      => LET r == ConfigureMedium(cos[t], medium, direction, enabled)
                         IN r.status < 0 /\ r.send = send /\ r.accept = accept

\* C25: handle_message gives the host an error result when handleMessage
\* returns a negative status, or status 0 with a response that is not
\* well-formed JSON; a synchronous OK with the parsed JSON for status 0 and a
\* well-formed response; an asynchronous OK for a positive status; and an
\* error result without any call-in while the plugin is shutting down or not
\* initialized.
C25_HandleMessageResult ==
    [][/\ \A t \in Hosts, status \in Statuses, response \in Responses :
            janus_lua_handle_message_return(t, status, response)
                => LET r == result'[t]
                   IN /\ status < 0 => r.type = "JANUS_PLUGIN_ERROR"
                      /\ (status = 0 /\ json_loads(response) = NoJson)
                            => r.type = "JANUS_PLUGIN_ERROR"
                      /\ (status = 0 /\ json_loads(response) # NoJson)
                            => r.type = "JANUS_PLUGIN_OK" /\ r.content = json_loads(response)
                      /\ status > 0 => r.type = "JANUS_PLUGIN_OK_WAIT"
       /\ \A t \in Hosts, h \in Handles :
            (Rejected /\ janus_lua_handle_message_rejected(t, h))
                => result'[t].type = "JANUS_PLUGIN_ERROR" /\ cin'[t] = "none" /\ pc'[t] = "idle"
      ]_vars

\* C26: once janus_lua_init was given a script that does not load or that
\* lacks one of the nine required functions, init has failed, the plugin is
\* never initialized, the scheduler thread does not run, and no thread of the
\* host core is in a call-in or on its way to one.
C26_FailedInitStaysDown ==
    (pc[MainT] # "init" /\ (~lua_file.loads \/ lua_functions \ lua_file.functions # {}))
        => /\ pc[MainT] = "init_failed"
           /\ ~initialized
           /\ pc[SchedT] = "off"
           /\ \A t \in Hosts \cup Workers : pc[t] = "idle" /\ cin[t] = "none"

C26_MissingFunctionRejected ==
    /\ pc[MainT] = "init_failed"
    /\ lua_file.loads /\ "hangupMedia" \notin lua_file.functions
    /\ \E h \in Handles : hstate[h] = "failed"

\* C27: when hangup_media has been delivered for a handle with a session,
\* destroyed or not, the recipient list of the session is empty, be it a
\* hangup_media that returned early or one that went on to its call-in; and
\* each relation it removes gives up one reference on the session and one on
\* the recipient.
C27_HangupReleasesAll ==
    [][/\ \A h \in Handles :
            (~hungup[h] /\ hungup'[h] /\ plugin_handle[h] # NULL)
                => recipients'[plugin_handle[h]] = <<>>
       /\ \A t \in Threads :
            janus_lua_hangup_media_loop(t)
                => IF recipients[sess[t]] # <<>>
                   THEN /\ recipients'[sess[t]] = Tail(recipients[sess[t]])
                        /\ decs'[t] = <<sess[t], Head(recipients[sess[t]])>>
                   ELSE cin'[t] = "hangupMedia" /\ recipients'[sess[t]] = <<>>
      ]_vars

\* Every handle is detached and has had its hangup_media, one that went
\* through (hangingup is set since) or one that returned early, and no
\* helper thread is at work
TornDown ==
    /\ \A h \in Peers : hstate[h] = "detached" /\ (hangingup[h] \/ hungup[h])
    /\ \A w \in Workers : pc[w] = "idle"

\* C28: once every session has been detached and hung up, in either order,
\* and the helper threads have finished, every session is eventually freed
\* and the id table is empty.
C28_EventuallyFreed ==
    TornDown ~> (/\ \A s \in Peers : mem[s] = "freed"
                 /\ \A i \in Ids : ids[i] = NULL)

\* The entries of the recipient lists in which session s is the source, and
\* those in which it is the recipient
AsSource(s) == Len(recipients[s])
AsRecipient(s) ==
    Cardinality({e \in UNION {{<<x, i>> : i \in 1..Len(recipients[x])} : x \in Handles} :
                    recipients[e[1]][e[2]] = s})

\* No call-out and no helper thread is in progress
NoCallOut == \A t \in Threads : co[t] = "none" /\ (t \in Workers => pc[t] = "idle")

\* C29: when no call-out and no helper thread is in progress, the reference
\* count of a session is one for the sessions table (until the
\* session is destroyed), plus one for the handle, plus its entries as
\* source and as recipient.
C29_RefCountWithHandle ==
    NoCallOut
        => \A s \in Handles :
              mem[s] = "live"
                  => ref[s] = (IF destroyed[s] THEN 0 ELSE 1) + 1 + AsSource(s) + AsRecipient(s)

\* C30: a thread that is about to give a packet or a data message to the
\* host's relay function for the recipients of a session does not own the
\* recipients_mutex of that session.
C30_RelayOutsideLock ==
    \A t \in Hosts :
        /\ (pc[t] = "relay" /\ Relay(t).to # <<>>) => recipients_mutex[sess[t]] # t
        /\ (pc[t] = "relay_data" /\ RelayData(t) # <<>>) => recipients_mutex[sess[t]] # t

\* The script defines none of the optional media functions
NoHandlers == lua_file.functions \cap OptionalFunctions = {}

\* The thread is inside incoming_rtp, incoming_rtcp or incoming_data
InHandler(t) ==
    \/ cin[t] \in OptionalFunctions
    \/ pc[t] \in {"rtp_wait", "save", "save_data", "relay_wait", "relay", "data_wait",
                "relay_data", "pli"}

\* C31: when the script defines none of incomingRtp, incomingRtcp and
\* incomingData, a host thread inside incoming_rtp, incoming_rtcp or
\* incoming_data always gets back to the core, whether or not the script
\* function another thread is inside of ever returns: it never waits for
\* the engine lock.
C31_RunsToCompletion ==
    \A t \in Hosts : (NoHandlers /\ InHandler(t)) ~> (pc[t] = "idle")

C31_RelayDuringCallIn ==
    /\ NoHandlers
    /\ \E a, b \in Hosts :
          /\ pc[a] = "script" /\ lua_mutex = a /\ cin[a] = "handleMessage"
          /\ pc[b] \in {"relay", "relay_data"} /\ recipients_mutex[sess[b]] = b

\* C32: when the script defines incomingRtp, incomingRtcp or incomingData,
\* a packet of that kind for a session that is neither destroyed nor
\* hanging up is handed to the script function of that name, once, and
\* nothing native is done for it: no frame is saved, nothing is relayed, no
\* keyframe request or other call into the core is made.
C32_DelegatedToScript ==
    [][\A t \in Hosts :
         /\ \A h \in Handles :
              /\ janus_lua_incoming_rtp(t, h) => pc'[t] = "rtp_wait"
              /\ janus_lua_incoming_rtcp(t, h) => (pc'[t] = "lua_wait" /\ cin'[t] = "incomingRtcp")
              /\ janus_lua_incoming_data(t, h) => (pc'[t] = "lua_wait" /\ cin'[t] = "incomingData")
              /\ (janus_lua_incoming_rtp(t, h) \/ janus_lua_incoming_rtcp(t, h)
                                                \/ janus_lua_incoming_data(t, h))
                    => UNCHANGED <<recorders, relayed, rtpctx, stream, pli_latest, lastHost>>
         /\ janus_lua_incoming_rtp_call(t)
              => (~crashed' /\ pc'[t] = "script" /\ cin'[t] = "incomingRtp")
      ]_vars

\* The step is one of thread t
Moves(t) ==
    <<pc[t], cin[t], co[t], cos[t], sess[t], rcp[t], decs[t], freeing[t], asev[t],
      specs[t], pkt[t], pli_now[t]>>'
        # <<pc[t], cin[t], co[t], cos[t], sess[t], rcp[t], decs[t], freeing[t], asev[t],
            specs[t], pkt[t], pli_now[t]>>

\* C33: a step that writes the send or accept flags of a session, its
\* keyframe interval or last-request time, its continuity context or its
\* recipient list is a step of the thread that holds the recipients lock
\* of that very session.
C33_WritesUnderSessionLock ==
    [][\A s \in Handles :
         (\/ send'[s] # send[s] \/ accept'[s] # accept[s]
          \/ pli_freq'[s] # pli_freq[s] \/ pli_latest'[s] # pli_latest[s]
          \/ rtpctx'[s] # rtpctx[s] \/ recipients'[s] # recipients[s])
            => \E t \in Threads : recipients_mutex[s] = t /\ Moves(t)
      ]_vars

\* C34: a step that inserts into or removes from the handle-keyed or the
\* id-keyed table is a step of the thread that holds sessions_mutex, the
\* removal of the id of a session whose last reference goes away included.
\* The step of thread t runs with sessions_mutex held: t owns it before or
\* after, or the step is the locked section of create_session as a whole
UnderRegistryLock(t) ==
    Moves(t) /\ (sessions_mutex = t \/ sessions_mutex' = t \/ janus_lua_create_session(t))

C34_RegistryUnderLock ==
    [][(sessions' # sessions \/ ids' # ids) => \E t \in Threads : UnderRegistryLock(t)]_vars

\* C35: when the configuration has no script path, the item missing or
\* there without a value, janus_lua_init returns -1 and the plugin never
\* becomes active.
C35_MissingScriptRejected ==
    (pc[MainT] # "init" /\ lua_file.item # "value")
        => (pc[MainT] = "init_failed" /\ ~initialized /\ ~crashed)

\* C36: the recorder a media thread hands to janus_recorder_save_frame is
\* one that is still open, however incoming_rtp and incoming_data interleave
\* with stopRecording: no frame goes to a recorder that was closed and freed.
C36_FrameToOpenRecorder ==
    [][\A t \in Hosts :
         janus_lua_incoming_save(t)
            => (save_rc[t] = NULL \/ (recorders[save_rc[t]].state = "open"
                                       /\ ~recorders[save_rc[t]].freed))
      ]_vars

\* C37: of the call-ins that carry the id of a session, createSession is
\* the first and destroySession is delivered once and is the last: every
\* other call-in with that id is delivered after createSession has returned
\* and before destroySession is delivered, whatever callbacks the host core
\* makes on the handle afterwards.
C37_CallInsWithinLifetime ==
    [][\A t \in Hosts :
         (LuaLock(t) /\ sess[t] # NULL)
            => CASE cin[t] = "createSession" -> hstate[sess[t]] = "creating"
                 [] cin[t] = "destroySession" -> hstate[sess[t]] = "detaching"
                 [] OTHER -> hstate[sess[t]] \in {"attached", "detaching"}
      ]_vars

\* The sessions whose handle a step of the relay calls gateway->relay_rtp or
\* gateway->relay_data with
ForwardedTo(t) ==
    IF janus_lua_incoming_rtp_unlock(t) THEN Range(Relay(t).to)
    ELSE IF janus_lua_incoming_data_unlock(t) THEN Range(RelayData(t))
    ELSE {}

\* C38: once destroy_session has returned for a session, the relay gives
\* no media and no data to the handle of that session, also when the session
\* is still in a recipient list and its media was never hung up.
C38_NothingToDestroyed ==
    [][\A t \in Hosts : \A r \in ForwardedTo(t) : hstate[r] # "detached"]_vars

\* C39: the bridge leaves the reference count of a handle where the host
\* core put it: it is never below that value, and it is that value again
\* once the session of the handle has been freed.
C39_HandleRefBalanced ==
    \A h \in Handles :
        /\ handle_ref[h] >= HostRef
        /\ mem[h] = "freed" => handle_ref[h] = HostRef
====
